---- MODULE Spec2Model ----
(***************************************************************************)
(* The plugin lifecycle orchestrator (PluginManager): registry, dependency *)
(* resolver, retrying initializer, health monitor and recovery controller. *)
(* JavaScript runs the manager on one event loop: every action below is    *)
(* one run of code from a call or a resumed await up to the next await.    *)
(***************************************************************************)
EXTENDS Integers, Sequences, FiniteSets, TLC

VARIABLES
    plugins,        \* Map<string, PluginEntry>: insertion-ordered <<key, entry reference>>
    dependencies,   \* Map<string, Set<string>>: insertion-ordered <<key, ordered set>>
    heap,           \* the PluginEntry objects, by reference
    tasks,          \* the async calls made so far (frames of initializePlugins / restart / terminate)
    log,            \* the calls made on this.logger, in order
    calls,          \* the calls received by the plugin instances (initialize / destroy), in order
    callResult,     \* outcome of the latest registerPlugin call
    clock,          \* Date.now()
    nextTick        \* the time at which the setInterval callback fires next

vars == <<plugins, dependencies, heap, tasks, log, calls, callResult, clock, nextTick>>

----------------------------------------------------------------------------
\* Bounds of the model

\* the plugin ids a caller uses
PluginNames == {"a", "b", "c"}

\* longest dependencies array a caller passes
MaxDeps == 2

\* number of registerPlugin calls that are accepted in one behaviour
MaxEntries == 3

\* number of async calls (initializePlugins, terminatePlugin, recoveries) in one behaviour
MaxTasks == 3

\* longest dependencies array and largest retryAttempts when the lifecycle of the
\* plugins is looked at together with the dependency graph
MaxInitDeps == 1

MaxInitRetry == 2

\* largest retryAttempts when the retries of one plugin are looked at
MaxRetry == 3

\* the simulated clock stops advancing here
MaxClock == 70000

\* the longest step of the simulated clock when the monitor is looked at
ClockStepMs == 1000

\* cap on errorCount
MaxErrors == 12

----------------------------------------------------------------------------
\* Program constants

DefaultRetryAttempts == 3
DefaultTimeoutMs == 5000
HealthCheckIntervalMs == 10000
HeartbeatThresholdMs == 30000
ErrorThreshold == 10
BackoffUnitMs == 1000

----------------------------------------------------------------------------
\* JavaScript Map and Set, which iterate in insertion order

MapHas(m, k) == \E i \in 1..Len(m) : m[i].key = k

MapGet(m, k) == m[CHOOSE i \in 1..Len(m) : m[i].key = k].value

MapSet(m, k, v) ==
    IF MapHas(m, k)
    THEN [i \in 1..Len(m) |-> IF m[i].key = k THEN [key |-> k, value |-> v] ELSE m[i]]
    ELSE Append(m, [key |-> k, value |-> v])

MapDelete(m, k) == SelectSeq(m, LAMBDA e : e.key # k)

MapKeys(m) == [i \in 1..Len(m) |-> m[i].key]

SeqHas(s, x) == \E i \in 1..Len(s) : s[i] = x

Range(s) == {s[i] : i \in 1..Len(s)}

\* new Set(array): the first occurrence of each element, in order
RECURSIVE NewSet(_)
NewSet(arr) ==
    IF arr = <<>> THEN <<>>
    ELSE LET init == NewSet(SubSeq(arr, 1, Len(arr) - 1))
             x == arr[Len(arr)]
         IN  IF SeqHas(init, x) THEN init ELSE Append(init, x)

----------------------------------------------------------------------------
\* resolveInitializationOrder

NoError == [error |-> "none", cycle |-> <<>>, dep |-> "", plugin |-> ""]

CircularDependency(cycle) ==
    [error |-> "Circular dependency detected", cycle |-> cycle, dep |-> "", plugin |-> ""]

MissingDependencyBug(dep, name) ==
    [error |-> "Missing dependency", cycle |-> <<>>, dep |-> name, plugin |-> dep]

MissingDependency(dep, name) ==
    [error |-> "Missing dependency", cycle |-> <<>>, dep |-> dep, plugin |-> name]

\* the walk's state: the visited set, initOrder, and the error thrown, if any
WalkStart == [visited |-> {}, initOrder |-> <<>>, thrown |-> NoError]

\* what visit does once the dependencies of name have been walked without a throw
visitFinishBug(name, st) ==
    [st EXCEPT !.visited = @ \cup {name}, !.initOrder = <<name>> \o @]

visitFinish(name, st) ==
    [st EXCEPT !.visited = @ \cup {name}, !.initOrder = Append(@, name)]

\* the cycle reported when name is met again on the recursion path
reportedCycleBug(path, name) == <<name>>

reportedCycle(path, name) == Append(path, name)

RECURSIVE visit(_, _, _, _, _)
RECURSIVE visitDeps(_, _, _, _, _, _, _)

\* const visit = (name, path) => { ... }; path is the Set of names on the recursion path
visit(pl, deps, name, path, st) ==
    IF SeqHas(path, name) THEN [st EXCEPT !.thrown = CircularDependency(reportedCycle(path, name))]
    ELSE IF name \in st.visited THEN st
    ELSE LET ds == IF MapHas(deps, name) THEN MapGet(deps, name) ELSE <<>>
             after == visitDeps(pl, deps, name, ds, 1, Append(path, name), st)
         IN  IF after.thrown # NoError THEN after ELSE visitFinish(name, after)

\* for (const dep of dependencies) { ... } of visit(name), from the i-th dependency on
visitDeps(pl, deps, name, ds, i, path, st) ==
    IF i > Len(ds) \/ st.thrown # NoError THEN st
    ELSE IF ~MapHas(pl, ds[i]) THEN [st EXCEPT !.thrown = MissingDependency(ds[i], name)]
    ELSE visitDeps(pl, deps, name, ds, i + 1, path, visit(pl, deps, ds[i], path, st))

\* for (const name of this.plugins.keys()) visit(name, new Set()), from the i-th key on
RECURSIVE visitAll(_, _, _, _)
visitAllBug(pl, deps, i, st) ==
    IF i > Len(pl) \/ st.thrown # NoError THEN st
    ELSE visitAll(pl, deps, i + 1, visit(pl, deps, pl[Len(pl) + 1 - i].key, <<>>, st))

visitAll(pl, deps, i, st) ==
    IF i > Len(pl) \/ st.thrown # NoError THEN st
    ELSE visitAll(pl, deps, i + 1, visit(pl, deps, pl[i].key, <<>>, st))

resolveInitializationOrder(pl, deps) == visitAll(pl, deps, 1, WalkStart)

----------------------------------------------------------------------------
\* registerPlugin, validatePluginConfig, normalizeConfig

DefaultMetadata == "1.0.0 / No description provided"

\* private normalizeConfig(config): config.given names the fields the caller supplied
normalizeConfigBug(config) ==
    [metadata |-> IF "metadata" \in config.given THEN config.metadata ELSE DefaultMetadata,
     dependencies |-> IF "dependencies" \in config.given THEN config.dependencies ELSE <<>>,
     options |-> IF "options" \in config.given THEN config.options ELSE "{}",
     errorHandling |->
        [retryAttempts |-> DefaultRetryAttempts,
         timeoutMs |-> DefaultTimeoutMs,
         recoveryStrategy |-> "restart"]]

normalizeConfig(config) ==
    [metadata |-> IF "metadata" \in config.given THEN config.metadata ELSE DefaultMetadata,
     dependencies |-> IF "dependencies" \in config.given THEN config.dependencies ELSE <<>>,
     options |-> IF "options" \in config.given THEN config.options ELSE "{}",
     errorHandling |->
        [retryAttempts |-> IF "retryAttempts" \in config.given
                           THEN config.retryAttempts ELSE DefaultRetryAttempts,
         timeoutMs |-> IF "timeoutMs" \in config.given
                       THEN config.timeoutMs ELSE DefaultTimeoutMs,
         recoveryStrategy |-> IF "recoveryStrategy" \in config.given
                              THEN config.recoveryStrategy ELSE "restart"]]

\* private validatePluginConfig(name, config): the message thrown, or "none"
validatePluginConfigBug(pl, name, config) ==
    IF "dependencies" \in config.given /\ \E i \in 1..Len(config.dependencies) : config.dependencies[i] = ""
    THEN "Invalid dependencies configuration for plugin"
    ELSE "none"

validateDuplicateOnlyBug(pl, name, config) ==
    IF MapHas(pl, name) THEN "Plugin already registered" ELSE "none"

validateSelfDependencyBug(pl, name, config) ==
    IF MapHas(pl, name) THEN "Plugin already registered"
    ELSE IF "dependencies" \in config.given
            /\ \E i \in 1..Len(config.dependencies) : config.dependencies[i] \in {"", name}
    THEN "Invalid dependencies configuration for plugin"
    ELSE "none"

validatePluginConfig(pl, name, config) ==
    IF MapHas(pl, name) THEN "Plugin already registered"
    ELSE IF "dependencies" \in config.given
            /\ \E i \in 1..Len(config.dependencies) : config.dependencies[i] = ""
    THEN "Invalid dependencies configuration for plugin"
    ELSE "none"

\* the PluginEntry that registerPlugin creates
NewEntry(name, normalizedConfig, now) ==
    [plugin |-> name,
     config |-> normalizedConfig,
     isInitialized |-> FALSE,
     metrics |-> [lastHeartbeat |-> now, errorCount |-> 0, warningCount |-> 0]]

\* the next free entry reference
NewRef == Len(heap) + 1

\* async registerPlugin(name, plugin, config): it has no await and runs in one piece
registerPlugin(name, config) ==
    LET thrown == validatePluginConfig(plugins, name, config)
        normalizedConfig == normalizeConfig(config)
    IN  IF thrown # "none"
        THEN /\ callResult' = [op |-> "registerPlugin", name |-> name, error |-> thrown]
             /\ UNCHANGED <<plugins, dependencies, heap, log>>
        ELSE /\ Len(heap) < MaxEntries
             /\ heap' = Append(heap, NewEntry(name, normalizedConfig, clock))
             /\ plugins' = MapSet(plugins, name, NewRef)
             /\ dependencies' =
                    IF Len(normalizedConfig.dependencies) > 0
                    THEN MapSet(dependencies, name, NewSet(normalizedConfig.dependencies))
                    ELSE dependencies
             /\ log' = Append(log, [level |-> "info", msg |-> "Registered plugin", name |-> name, by |-> 0])
             /\ callResult' = [op |-> "registerPlugin", name |-> name, error |-> "none"]

RegisterPlugin(name, config) ==
    /\ registerPlugin(name, config)
    /\ UNCHANGED <<tasks, calls, clock, nextTick>>

----------------------------------------------------------------------------
\* The async calls. A task is the frame of one call of initializePlugins,
\* restartPlugin or terminatePlugin, suspended at an await (pc):
\*   "initialize"  await Promise.race([plugin.initialize(..), timeout])
\*   "backoff"     await new Promise(resolve => setTimeout(resolve, 1000 * attempts))
\*   "destroy"     await entry.plugin.destroy?.()
\*   "resolved" / "rejected"   the call's promise has settled
\* name, entry, attempts, retryAttempts, timeoutMs are the locals of the
\* initializePlugin (or restart / terminate) frame; id, started, logBase and
\* callBase are bookkeeping of the model: the task's index, the number of
\* plugin.initialize calls of the current initializePlugin run and the lengths
\* of log and calls when that run began.

NoFailure == [message |-> "none", code |-> "none", attempts |-> 0, cause |-> "none", context |-> NoError]

Failure(message, code) == [NoFailure EXCEPT !.message = message, !.code = code]

NewTask(id, kind, origin) ==
    [id |-> id, kind |-> kind, origin |-> origin, pc |-> "start",
     name |-> "", entry |-> 0, initOrder |-> <<>>, idx |-> 0,
     attempts |-> 0, retryAttempts |-> 0, timeoutMs |-> 0,
     started |-> 0, logBase |-> 0, callBase |-> 0, deadline |-> 0, error |-> NoFailure]

\* the manager's state while a piece of code runs, with the running frame t
Ctx(t) ==
    [plugins |-> plugins, dependencies |-> dependencies, heap |-> heap,
     log |-> log, calls |-> calls, t |-> t]

Logged(c, level, msg, name) ==
    [c EXCEPT !.log = Append(@, [level |-> level, msg |-> msg, name |-> name, by |-> c.t.id])]

\* a call of a plugin's initialize or destroy (phase "call") or its settling (phase
\* "resolved" / "rejected"); entry and by name the entry and the task it belongs to
CallEvent(op, entry, plugin, by, phase) ==
    [op |-> op, entry |-> entry, plugin |-> plugin, by |-> by, phase |-> phase]

Called(c, op, phase) ==
    [c EXCEPT !.calls = Append(@, CallEvent(op, c.t.entry, c.heap[c.t.entry].plugin, c.t.id, phase))]

\* restartPlugin's catch block
restartCatchBug(c) ==
    [c EXCEPT !.t.pc = "rejected", !.t.error = Failure("Plugin restart failed", "PLUGIN_ERROR")]

restartCatch(c) ==
    [Logged(c, "error", "Plugin restart failed", c.t.name) EXCEPT !.t.pc = "resolved"]

RECURSIVE initializePlugin(_, _)
RECURSIVE initializePluginReturns(_)

\* an error leaves initializePlugin: initializePlugins rejects with it, restartPlugin catches it
initializePluginThrowsBug(c, err) ==
    IF c.t.kind = "initializePlugins"
    THEN initializePluginReturns(c)
    ELSE restartCatch(c)

initializePluginThrows(c, err) ==
    IF c.t.kind = "initializePlugins"
    THEN [c EXCEPT !.t.pc = "rejected", !.t.error = err]
    ELSE restartCatch(c)

\* the head of while (attempts < retryAttempts): the next plugin.initialize call is made
\* and raced against setTimeout(.., timeoutMs), or the loop is left
attemptLoopBug(c) ==
    IF c.t.attempts < c.t.retryAttempts
    THEN [Called(c, "initialize", "call") EXCEPT
            !.t.pc = "initialize", !.t.started = @ + 1, !.t.deadline = MaxClock + 1]
    ELSE initializePluginReturns(c)

attemptLoop(c) ==
    IF c.t.attempts < c.t.retryAttempts
    THEN [Called(c, "initialize", "call") EXCEPT
            !.t.pc = "initialize", !.t.started = @ + 1, !.t.deadline = clock + c.t.timeoutMs]
    ELSE initializePluginReturns(c)

\* private async initializePlugin(name), up to its first await
initializePlugin(c, name) ==
    IF ~MapHas(c.plugins, name)
    THEN initializePluginThrows([c EXCEPT !.t.name = name], Failure("Plugin not found", "PLUGIN_ERROR"))
    ELSE LET ref == MapGet(c.plugins, name)
             errorHandling == c.heap[ref].config.errorHandling
         IN  attemptLoop([c EXCEPT !.t.name = name, !.t.entry = ref, !.t.attempts = 0,
                                   !.t.retryAttempts = errorHandling.retryAttempts,
                                   !.t.timeoutMs = errorHandling.timeoutMs,
                                   !.t.started = 0, !.t.logBase = Len(c.log),
                                   !.t.callBase = Len(c.calls)])

\* initializePlugin returned: the for loop of initializePlugins goes on to the next
\* name of initOrder, the try block of restartPlugin ends
initializePluginReturns(c) ==
    IF c.t.kind = "initializePlugins" /\ c.t.idx < Len(c.t.initOrder)
    THEN initializePlugin([c EXCEPT !.t.idx = @ + 1], c.t.initOrder[c.t.idx + 1])
    ELSE [c EXCEPT !.t.pc = "resolved"]

\* async initializePlugins(), up to its first await
initializePluginsBug(c) ==
    LET earlier == {i \in 1..Len(tasks) : tasks[i].kind = "initializePlugins" /\ tasks[i].initOrder # <<>>}
        walk == resolveInitializationOrder(c.plugins, c.dependencies)
    IN  IF earlier # {}
        THEN initializePluginReturns(
                [c EXCEPT !.t.initOrder = tasks[CHOOSE i \in earlier : TRUE].initOrder, !.t.idx = 0])
        ELSE IF walk.thrown # NoError
        THEN [c EXCEPT !.t.pc = "rejected",
                       !.t.error = [Failure(walk.thrown.error, "CONFIGURATION_ERROR")
                                        EXCEPT !.context = walk.thrown]]
        ELSE initializePluginReturns([c EXCEPT !.t.initOrder = walk.initOrder, !.t.idx = 0])

initializePluginsUncheckedBug(c) ==
    LET walk == resolveInitializationOrder(c.plugins, c.dependencies)
    IN  initializePluginReturns([c EXCEPT !.t.initOrder = walk.initOrder, !.t.idx = 0])

initializePlugins(c) ==
    LET walk == resolveInitializationOrder(c.plugins, c.dependencies)
    IN  IF walk.thrown # NoError
        THEN [c EXCEPT !.t.pc = "rejected",
                       !.t.error = [Failure(walk.thrown.error, "CONFIGURATION_ERROR")
                                        EXCEPT !.context = walk.thrown]]
        ELSE initializePluginReturns([c EXCEPT !.t.initOrder = walk.initOrder, !.t.idx = 0])

\* the state after a piece of code has run in context c
Commit(c) ==
    /\ plugins' = c.plugins
    /\ dependencies' = c.dependencies
    /\ heap' = c.heap
    /\ log' = c.log
    /\ calls' = c.calls
    /\ tasks' = IF c.t.id > Len(tasks) THEN Append(tasks, c.t) ELSE [tasks EXCEPT ![c.t.id] = c.t]

\* the caller calls initializePlugins()
InitializePluginsCall ==
    /\ Len(tasks) < MaxTasks
    /\ Commit(initializePlugins(Ctx(NewTask(Len(tasks) + 1, "initializePlugins", "caller"))))
    /\ UNCHANGED <<callResult, clock, nextTick>>

\* the catch block of initializePlugin: attempts++, errorCount++, the error is logged,
\* and either the last attempt's error is wrapped and thrown or the backoff timer is set
attemptFailsBug(c, cause) ==
    LET counted == [c EXCEPT !.t.attempts = @ + 1,
                             !.heap[c.t.entry].metrics.errorCount = @ + 1]
        logged == Logged(counted, "error", "Plugin initialization failed", c.t.name)
    IN  IF logged.t.attempts + 1 >= logged.t.retryAttempts
        THEN initializePluginThrows(logged,
                [Failure("Failed to initialize plugin", "PLUGIN_ERROR")
                    EXCEPT !.cause = cause, !.attempts = logged.t.attempts])
        ELSE [logged EXCEPT !.t.pc = "backoff",
                            !.t.deadline = clock + BackoffUnitMs * logged.t.attempts]

attemptFailsFlatBug(c, cause) ==
    LET counted == [c EXCEPT !.t.attempts = @ + 1,
                             !.heap[c.t.entry].metrics.errorCount = @ + 1]
        logged == Logged(counted, "error", "Plugin initialization failed", c.t.name)
    IN  IF logged.t.attempts = logged.t.retryAttempts
        THEN initializePluginThrows(logged,
                [Failure("Failed to initialize plugin", "PLUGIN_ERROR")
                    EXCEPT !.cause = cause, !.attempts = logged.t.attempts])
        ELSE [logged EXCEPT !.t.pc = "backoff", !.t.deadline = clock + BackoffUnitMs]

attemptFailsUncountedBug(c, cause) ==
    LET counted == [c EXCEPT !.t.attempts = @ + 1,
                             !.heap[c.t.entry].metrics.errorCount =
                                 IF cause = "Initialization timeout" THEN @ ELSE @ + 1]
        logged == Logged(counted, "error", "Plugin initialization failed", c.t.name)
    IN  IF logged.t.attempts = logged.t.retryAttempts
        THEN initializePluginThrows(logged,
                [Failure("Failed to initialize plugin", "PLUGIN_ERROR")
                    EXCEPT !.cause = cause, !.attempts = logged.t.attempts])
        ELSE [logged EXCEPT !.t.pc = "backoff",
                            !.t.deadline = clock + BackoffUnitMs * logged.t.attempts]

attemptFails(c, cause) ==
    LET counted == [c EXCEPT !.t.attempts = @ + 1,
                             !.heap[c.t.entry].metrics.errorCount = @ + 1]
        logged == Logged(counted, "error", "Plugin initialization failed", c.t.name)
    IN  IF logged.t.attempts = logged.t.retryAttempts
        THEN initializePluginThrows(logged,
                [Failure("Failed to initialize plugin", "PLUGIN_ERROR")
                    EXCEPT !.cause = cause, !.attempts = logged.t.attempts])
        ELSE [logged EXCEPT !.t.pc = "backoff",
                            !.t.deadline = clock + BackoffUnitMs * logged.t.attempts]

\* the race was won by plugin.initialize: entry.isInitialized = true, logged, return
attemptSucceedsBug(c) ==
    initializePluginReturns(Logged(c, "info", "Initialized plugin", c.t.name))

attemptSucceeds(c) ==
    initializePluginReturns(
        Logged([c EXCEPT !.heap[c.t.entry].isInitialized = TRUE],
               "info", "Initialized plugin", c.t.name))

Awaiting(i, pc) == i \in 1..Len(tasks) /\ tasks[i].pc = pc

\* plugin.initialize(context, options) resolves before the timeout
InitializeResolves(i) ==
    /\ Awaiting(i, "initialize")
    /\ Commit(attemptSucceeds(Called(Ctx(tasks[i]), "initialize", "resolved")))
    /\ UNCHANGED <<callResult, clock, nextTick>>

\* plugin.initialize(context, options) rejects before the timeout
InitializeRejects(i) ==
    /\ Awaiting(i, "initialize")
    /\ heap[tasks[i].entry].metrics.errorCount < MaxErrors
    /\ Commit(attemptFails(Called(Ctx(tasks[i]), "initialize", "rejected"), "initialize rejected"))
    /\ UNCHANGED <<callResult, clock, nextTick>>

\* the timer of timeoutMs fires first: reject(new Error('Initialization timeout'))
InitializeTimesOut(i) ==
    /\ Awaiting(i, "initialize")
    /\ clock >= tasks[i].deadline
    /\ heap[tasks[i].entry].metrics.errorCount < MaxErrors
    /\ Commit(attemptFails(Ctx(tasks[i]), "Initialization timeout"))
    /\ UNCHANGED <<callResult, clock, nextTick>>

\* the number of plugin.initialize calls that frame i made for entry ref, that
\* lost the race against the timer and that have not settled yet
AbandonedCalls(i, ref) ==
    LET mine == {k \in 1..Len(calls) :
                    calls[k].op = "initialize" /\ calls[k].by = i /\ calls[k].entry = ref}
        made == Cardinality({k \in mine : calls[k].phase = "call"})
        settled == Cardinality({k \in mine : calls[k].phase # "call"})
        racing == IF tasks[i].pc = "initialize" /\ tasks[i].entry = ref THEN 1 ELSE 0
    IN  made - settled - racing

\* the promise of Promise.race settled when the timer fired, so the settling of
\* plugin.initialize of that attempt runs no code of the manager
lateSettleBug(c, ref) ==
    [c EXCEPT !.heap[ref].isInitialized = TRUE,
              !.t.pc = IF @ = "rejected" THEN "resolved" ELSE @]

lateSettle(c, ref) == c

\* a plugin.initialize call whose attempt timed out resolves or rejects after all
LateInitializeSettles(i, ref, phase) ==
    /\ i \in 1..Len(tasks)
    /\ ref \in 1..Len(heap)
    /\ AbandonedCalls(i, ref) > 0
    /\ Commit(lateSettle(
            [Ctx(tasks[i]) EXCEPT !.calls = Append(@, CallEvent("initialize", ref, heap[ref].plugin, i, phase))],
            ref))
    /\ UNCHANGED <<callResult, clock, nextTick>>

\* the wait before the retry is over: back to the head of the while loop
BackoffElapses(i) ==
    /\ Awaiting(i, "backoff")
    /\ clock >= tasks[i].deadline
    /\ Commit(attemptLoop(Ctx(tasks[i])))
    /\ UNCHANGED <<callResult, clock, nextTick>>

----------------------------------------------------------------------------
\* restartPlugin, terminatePlugin

\* private async restartPlugin(name) / terminatePlugin(name), up to await entry.plugin.destroy?.();
\* entry is this.plugins.get(name)!; when it is undefined, entry.plugin throws a
\* TypeError inside the try block and the catch block logs it
beginDestroyBug(c, name, msg, failed) ==
    LET logged == Logged([c EXCEPT !.t.name = name], "info", msg, name)
    IN  IF ~MapHas(c.plugins, name)
        THEN [logged EXCEPT !.t.pc = "rejected", !.t.error = Failure("TypeError", "none")]
        ELSE [Called([logged EXCEPT !.t.entry = MapGet(c.plugins, name)], "destroy", "call")
                EXCEPT !.t.pc = "destroy"]

beginDestroy(c, name, msg, failed) ==
    LET logged == Logged([c EXCEPT !.t.name = name], "info", msg, name)
    IN  IF ~MapHas(c.plugins, name)
        THEN [Logged(logged, "error", failed, name) EXCEPT !.t.pc = "resolved"]
        ELSE [Called([logged EXCEPT !.t.entry = MapGet(c.plugins, name)], "destroy", "call")
                EXCEPT !.t.pc = "destroy"]

restartPlugin(c, name) == beginDestroy(c, name, "Restarting plugin", "Plugin restart failed")

terminatePluginBug(c, name) ==
    [Logged([c EXCEPT !.t.name = name], "info", "Terminating plugin", name)
        EXCEPT !.plugins = MapDelete(@, name), !.dependencies = MapDelete(@, name),
               !.t.pc = "resolved"]

terminatePlugin(c, name) == beginDestroy(c, name, "Terminating plugin", "Plugin termination failed")

\* terminatePlugin after destroy resolved: the entry and its dependency set are deleted
terminateRemovesBug(c) ==
    [c EXCEPT !.plugins = MapDelete(@, c.t.name), !.t.pc = "resolved"]

terminateRemoves(c) ==
    [c EXCEPT !.plugins = MapDelete(@, c.t.name),
              !.dependencies = MapDelete(@, c.t.name),
              !.t.pc = "resolved"]

\* restartPlugin after destroy resolved: entry.isInitialized = false; await this.initializePlugin(name)
restartReinitializesBug(c) ==
    initializePlugin([c EXCEPT !.heap[c.t.entry].isInitialized = FALSE,
                               !.heap[c.t.entry].metrics.errorCount = 0], c.t.name)

restartReinitializes(c) ==
    initializePlugin([c EXCEPT !.heap[c.t.entry].isInitialized = FALSE], c.t.name)

\* terminatePlugin's catch block
terminateCatchBug(c) ==
    [Logged(c, "error", "Plugin termination failed", c.t.name)
        EXCEPT !.plugins = MapDelete(@, c.t.name), !.t.pc = "resolved"]

terminateCatch(c) ==
    [Logged(c, "error", "Plugin termination failed", c.t.name) EXCEPT !.t.pc = "resolved"]

\* the caller calls terminatePlugin(name)
TerminatePluginCall(name) ==
    /\ Len(tasks) < MaxTasks
    /\ Commit(terminatePlugin(Ctx(NewTask(Len(tasks) + 1, "terminatePlugin", "caller")), name))
    /\ UNCHANGED <<callResult, clock, nextTick>>

\* entry.plugin.destroy() resolves
DestroyResolves(i) ==
    /\ Awaiting(i, "destroy")
    /\ LET c == Called(Ctx(tasks[i]), "destroy", "resolved")
       IN  Commit(IF tasks[i].kind = "terminatePlugin" THEN terminateRemoves(c)
                  ELSE restartReinitializes(c))
    /\ UNCHANGED <<callResult, clock, nextTick>>

\* entry.plugin.destroy() rejects
DestroyRejects(i) ==
    /\ Awaiting(i, "destroy")
    /\ LET c == Called(Ctx(tasks[i]), "destroy", "rejected")
       IN  Commit(IF tasks[i].kind = "terminatePlugin" THEN terminateCatch(c)
                  ELSE restartCatch(c))
    /\ UNCHANGED <<callResult, clock, nextTick>>

----------------------------------------------------------------------------
\* initializeHealthMonitoring, handlePluginFailure

\* a recovery call made by the monitor: the frame is added to the tasks; st is the
\* manager's state at this point of the interval callback
monitorCalls(st, kind, name) ==
    LET c == [plugins |-> st.plugins, dependencies |-> st.dependencies, heap |-> st.heap,
              log |-> st.log, calls |-> st.calls,
              t |-> NewTask(Len(st.tasks) + 1, kind, "monitor")]
        began == IF kind = "restartPlugin" THEN restartPlugin(c, name) ELSE terminatePlugin(c, name)
    IN  [plugins |-> began.plugins, dependencies |-> began.dependencies, heap |-> began.heap,
         log |-> began.log, calls |-> began.calls, tasks |-> Append(st.tasks, began.t)]

\* private async failoverPlugin(name)
failoverPluginBug(st, name) == monitorCalls(st, "restartPlugin", name)

failoverPlugin(st, name) ==
    [st EXCEPT !.log = Append(@, [level |-> "info", msg |-> "Failover initiated for plugin",
                                  name |-> name, by |-> 0])]

\* private async handlePluginFailure(name, entry), up to the first await
handlePluginFailure(st, name, ref) ==
    LET recoveryStrategy == st.heap[ref].config.errorHandling.recoveryStrategy
    IN  CASE recoveryStrategy = "restart" -> monitorCalls(st, "restartPlugin", name)
          [] recoveryStrategy = "failover" -> failoverPlugin(st, name)
          [] recoveryStrategy = "terminate" -> monitorCalls(st, "terminatePlugin", name)
          [] OTHER -> st

\* the heartbeat check of one entry
heartbeatTimedOutBug(elapsed) == elapsed >= HeartbeatThresholdMs

heartbeatTimedOut(elapsed) == elapsed > HeartbeatThresholdMs

checkHeartbeat(st, name, ref) ==
    LET elapsed == clock - st.heap[ref].metrics.lastHeartbeat
    IN  IF heartbeatTimedOut(elapsed)
        THEN [st EXCEPT !.log = Append(@, [level |-> "warn", msg |-> "Plugin heartbeat timeout",
                                           name |-> name, by |-> 0])]
        ELSE st

\* the body of for (const [name, entry] of this.plugins), from the i-th entry of
\* the map on; the iteration reads the map as it is when it gets there
RECURSIVE healthCheck(_, _)
healthCheckBug(i, st) ==
    IF i > Len(st.plugins) THEN st
    ELSE LET name == st.plugins[i].key
             ref == st.plugins[i].value
             warned == checkHeartbeat(st, name, ref)
         IN  healthCheck(i + 1,
                IF st.heap[ref].metrics.errorCount >= ErrorThreshold
                THEN handlePluginFailure(warned, name, ref)
                ELSE warned)

healthCheck(i, st) ==
    IF i > Len(st.plugins) THEN st
    ELSE LET name == st.plugins[i].key
             ref == st.plugins[i].value
             warned == checkHeartbeat(st, name, ref)
         IN  healthCheck(i + 1,
                IF st.heap[ref].metrics.errorCount > ErrorThreshold
                THEN handlePluginFailure(warned, name, ref)
                ELSE warned)

\* the setInterval callback of initializeHealthMonitoring fires
Tick ==
    /\ clock >= nextTick
    /\ LET st == healthCheck(1, [plugins |-> plugins, dependencies |-> dependencies, heap |-> heap,
                                 log |-> log, calls |-> calls, tasks |-> tasks])
       IN  /\ Len(st.tasks) <= MaxTasks
           /\ plugins' = st.plugins
           /\ dependencies' = st.dependencies
           /\ heap' = st.heap
           /\ log' = st.log
           /\ calls' = st.calls
           /\ tasks' = st.tasks
    /\ nextTick' = nextTick + HealthCheckIntervalMs
    /\ UNCHANGED <<callResult, clock>>

----------------------------------------------------------------------------
\* The simulated clock: timers fire when they are due, so the clock never passes
\* a pending timer (the interval's next tick, a timeout, a backoff wait)

Min(S) == CHOOSE x \in S : \A y \in S : x <= y

PendingTimers ==
    {nextTick} \cup {tasks[i].deadline : i \in {j \in 1..Len(tasks) : tasks[j].pc \in {"initialize", "backoff"}}}

NextTimer == Min(PendingTimers)

AdvanceClock(to) ==
    /\ clock < to
    /\ to <= NextTimer
    /\ to <= MaxClock
    /\ clock' = to
    /\ UNCHANGED <<plugins, dependencies, heap, tasks, log, calls, callResult, nextTick>>

----------------------------------------------------------------------------
\* The manager after new PluginManager(context)

Registered == {plugins[i].key : i \in 1..Len(plugins)}

Init ==
    /\ plugins = <<>>
    /\ dependencies = <<>>
    /\ heap = <<>>
    /\ tasks = <<>>
    /\ log = <<>>
    /\ calls = <<>>
    /\ callResult = [op |-> "none", name |-> "", error |-> "none"]
    /\ clock = 0
    /\ nextTick = HealthCheckIntervalMs

\* what a caller passes as config
Config(given, deps, retryAttempts, recoveryStrategy) ==
    [given |-> given, metadata |-> "1.0.0", dependencies |-> deps, options |-> "{}",
     retryAttempts |-> retryAttempts, timeoutMs |-> DefaultTimeoutMs,
     recoveryStrategy |-> recoveryStrategy]

\* registerPlugin(name, plugin) without a config
NoConfig == Config({}, <<>>, DefaultRetryAttempts, "restart")

\* the arrays of at most n ids
RECURSIVE ArraysUpTo(_, _)
ArraysUpTo(S, n) ==
    IF n = 0 THEN {<<>>}
    ELSE LET shorter == ArraysUpTo(S, n - 1)
         IN  shorter \cup {Append(a, x) : a \in shorter, x \in S}

----------------------------------------------------------------------------
\* Registration and resolution over every dependency graph of PluginNames: each
\* id is registered at most once, initializePlugins is called once, at any point,
\* and the plugins' initialize succeeds

NextResolve ==
    \/ \E name \in PluginNames \ Registered, deps \in ArraysUpTo(PluginNames, MaxDeps) :
          RegisterPlugin(name, Config({"dependencies"}, deps, DefaultRetryAttempts, "restart"))
    \/ tasks = <<>> /\ InitializePluginsCall
    \/ \E i \in 1..MaxTasks : InitializeResolves(i)

SpecResolve == Init /\ [][NextResolve]_vars

----------------------------------------------------------------------------
\* Initialization: the caller registers plugins with dependencies and retry
\* budgets and then calls initializePlugins; initialize resolves or rejects at
\* once; the clock jumps to the end of each retry wait, and the run is over
\* before the first monitor tick

Settled(i) == tasks[i].pc \in {"resolved", "rejected"}

\* the caller awaits each of its calls
CallerIdle == \A i \in 1..Len(tasks) : tasks[i].origin = "caller" => Settled(i)

TaskTimerPending == \E i \in 1..Len(tasks) : tasks[i].pc \in {"initialize", "backoff"}

BackoffPending == \E i \in 1..Len(tasks) : tasks[i].pc = "backoff"

Next ==
    \/ /\ tasks = <<>>
       /\ \E name \in PluginNames, deps \in ArraysUpTo(PluginNames, MaxInitDeps), r \in 1..MaxInitRetry :
             RegisterPlugin(name, Config({"dependencies", "retryAttempts"}, deps, r, "restart"))
    \/ tasks = <<>> /\ InitializePluginsCall
    \/ \E i \in 1..MaxTasks : InitializeResolves(i)
    \/ \E i \in 1..MaxTasks : InitializeRejects(i)
    \/ \E i \in 1..MaxTasks : BackoffElapses(i)
    \/ BackoffPending /\ AdvanceClock(NextTimer)

Spec == Init /\ [][Next]_vars

----------------------------------------------------------------------------
\* Retries: plugins without dependencies, with every retry budget up to
\* MaxRetry, and one initializePlugins call; initialize resolves, rejects or
\* hangs until the timeout; the clock jumps from one pending timer to the next

RetryNames == {"a", "b"}

NextRetry ==
    \/ /\ tasks = <<>>
       /\ \E name \in RetryNames, r \in 1..MaxRetry :
             RegisterPlugin(name, Config({"retryAttempts"}, <<>>, r, "restart"))
    \/ tasks = <<>> /\ \E name \in RetryNames : RegisterPlugin(name, NoConfig)
    \/ tasks = <<>> /\ InitializePluginsCall
    \/ \E i \in 1..MaxTasks : InitializeResolves(i)
    \/ \E i \in 1..MaxTasks : InitializeRejects(i)
    \/ \E i \in 1..MaxTasks : InitializeTimesOut(i)
    \/ \E i \in 1..MaxTasks : BackoffElapses(i)
    \/ Tick
    \/ TaskTimerPending /\ AdvanceClock(NextTimer)

SpecRetry == Init /\ [][NextRetry]_vars

\* the timers fire: the interval callback and the timeout and backoff timers run
\* once they are due, and time goes on to the next pending timer; nothing is
\* assumed of plugin.initialize, which may never settle
TimersFire ==
    /\ WF_vars(Tick)
    /\ WF_vars(TaskTimerPending /\ AdvanceClock(NextTimer))
    /\ \A i \in 1..MaxTasks : WF_vars(InitializeTimesOut(i)) /\ WF_vars(BackoffElapses(i))

SpecRetryFair == SpecRetry /\ TimersFire

----------------------------------------------------------------------------
\* The registry: the caller registers (also ids that are registered already),
\* initializes and terminates plugins, awaiting each call; initialize resolves,
\* destroy resolves or rejects; all of it within the first monitor period

RegistryNames == {"a", "b"}

NextRegistry ==
    \/ /\ CallerIdle
       /\ \E name \in RegistryNames, deps \in ArraysUpTo(RegistryNames, MaxInitDeps) :
             RegisterPlugin(name, Config({"dependencies"}, deps, DefaultRetryAttempts, "restart"))
    \/ CallerIdle /\ InitializePluginsCall
    \/ CallerIdle /\ \E name \in RegistryNames : TerminatePluginCall(name)
    \/ \E i \in 1..MaxTasks : InitializeResolves(i)
    \/ \E i \in 1..MaxTasks : DestroyResolves(i)
    \/ \E i \in 1..MaxTasks : DestroyRejects(i)

SpecRegistry == Init /\ [][NextRegistry]_vars

----------------------------------------------------------------------------
\* The monitor: plugins are registered at any time and left alone while the
\* clock goes on in steps of at most ClockStepMs and the interval fires

NextHealth ==
    \/ \E name \in RegistryNames : RegisterPlugin(name, NoConfig)
    \/ Tick
    \/ AdvanceClock(Min({clock + ClockStepMs, NextTimer}))

SpecHealth == Init /\ [][NextHealth]_vars

----------------------------------------------------------------------------
\* Recovery: one plugin with the default retry budget or with one that lets
\* errorCount pass the monitor's threshold within a single initializePlugins
\* call, and with each recovery strategy; it is registered again once it has
\* been terminated; the caller awaits each call; the clock jumps from one
\* pending timer to the next while a retry wait is on or recovery is due

RecoveryStrategies == {"restart", "failover", "terminate"}

\* some entry is over the monitor's error threshold
RecoveryDue == \E ref \in 1..Len(heap) : heap[ref].metrics.errorCount > ErrorThreshold

NextRecovery ==
    \/ /\ tasks = <<>>
       /\ plugins = <<>>
       /\ \E strategy \in RecoveryStrategies :
             \/ RegisterPlugin("a", Config({"recoveryStrategy"}, <<>>, DefaultRetryAttempts, strategy))
             \/ RegisterPlugin("a", Config({"retryAttempts", "recoveryStrategy"}, <<>>, MaxErrors, strategy))
    \/ CallerIdle /\ tasks # <<>> /\ "a" \notin Registered /\ RegisterPlugin("a", NoConfig)
    \/ CallerIdle /\ InitializePluginsCall
    \/ CallerIdle /\ RecoveryDue /\ TerminatePluginCall("a")
    \/ \E i \in 1..MaxTasks : InitializeResolves(i)
    \/ \E i \in 1..MaxTasks : InitializeRejects(i)
    \/ \E i \in 1..MaxTasks : BackoffElapses(i)
    \/ \E i \in 1..MaxTasks : DestroyResolves(i)
    \/ \E i \in 1..MaxTasks : DestroyRejects(i)
    \/ Tick
    \/ (BackoffPending \/ RecoveryDue) /\ AdvanceClock(NextTimer)

SpecRecovery == Init /\ [][NextRecovery]_vars

----------------------------------------------------------------------------
\* Error counts: plugins without dependencies are registered, and initializePlugins
\* is called again and again, each call after the one before has settled;
\* plugin.initialize resolves, rejects or hangs until the timeout

NextErrors ==
    \/ /\ tasks = <<>>
       /\ \E name \in RetryNames, r \in 1..MaxInitRetry :
             RegisterPlugin(name, Config({"retryAttempts"}, <<>>, r, "restart"))
    \/ CallerIdle /\ InitializePluginsCall
    \/ \E i \in 1..MaxTasks : InitializeResolves(i)
    \/ \E i \in 1..MaxTasks : InitializeRejects(i)
    \/ \E i \in 1..MaxTasks : InitializeTimesOut(i)
    \/ \E i \in 1..MaxTasks : BackoffElapses(i)
    \/ TaskTimerPending /\ AdvanceClock(NextTimer)

SpecErrors == Init /\ [][NextErrors]_vars

----------------------------------------------------------------------------
\* Defaults: "a" is registered, at any time of the monitor's clock, with a config
\* that supplies any of the fields of PluginConfig and of errorHandling and leaves
\* out the others; the supplied values are not the default ones

ConfigFields ==
    {"metadata", "dependencies", "options", "retryAttempts", "timeoutMs", "recoveryStrategy"}

SuppliedConfig(given) ==
    [given |-> given, metadata |-> "2.0.0 / supplied", dependencies |-> <<"b">>,
     options |-> "{debug: true}", retryAttempts |-> 1, timeoutMs |-> 100,
     recoveryStrategy |-> "failover"]

DefaultsInputs == {SuppliedConfig(given) : given \in SUBSET ConfigFields}

NextDefaults ==
    \/ \E config \in DefaultsInputs : RegisterPlugin("a", config)
    \/ Tick
    \/ AdvanceClock(NextTimer)

SpecDefaults == Init /\ [][NextDefaults]_vars

----------------------------------------------------------------------------
\* Monitoring: "a" is registered with enough retries to pass the monitor's error
\* threshold and "b" with the default ones, each with any recovery strategy and
\* in either order; initializePlugins is called once; once recovery is due the
\* caller may terminate a plugin and register one that is not registered; the
\* monitor ticks throughout

MonitorNames == {"a", "b"}

MonitorConfig(name, strategy) ==
    IF name = "a"
    THEN Config({"retryAttempts", "recoveryStrategy"}, <<>>, MaxErrors, strategy)
    ELSE Config({"recoveryStrategy"}, <<>>, DefaultRetryAttempts, strategy)

NextMonitor ==
    \/ /\ tasks = <<>>
       /\ \E name \in MonitorNames \ Registered, strategy \in RecoveryStrategies :
             RegisterPlugin(name, MonitorConfig(name, strategy))
    \/ tasks = <<>> /\ InitializePluginsCall
    \/ CallerIdle /\ RecoveryDue /\ \E name \in MonitorNames \ Registered : RegisterPlugin(name, NoConfig)
    \/ CallerIdle /\ RecoveryDue /\ \E name \in MonitorNames : TerminatePluginCall(name)
    \/ \E i \in 1..MaxTasks : InitializeResolves(i)
    \/ \E i \in 1..MaxTasks : InitializeRejects(i)
    \/ \E i \in 1..MaxTasks : BackoffElapses(i)
    \/ \E i \in 1..MaxTasks : DestroyResolves(i)
    \/ \E i \in 1..MaxTasks : DestroyRejects(i)
    \/ Tick
    \/ (BackoffPending \/ RecoveryDue) /\ AdvanceClock(NextTimer)

SpecMonitor == Init /\ [][NextMonitor]_vars

----------------------------------------------------------------------------
\* Configurations: plugins are registered with dependency ids that may be empty
\* and with explicit retryAttempts and timeoutMs that may be 0; then
\* initializePlugins is called once

ConfigNames == {"a", "b"}

DependencyIds == {"", "a", "b"}

ConfigInputs ==
    {Config({"dependencies"}, deps, DefaultRetryAttempts, "restart") :
        deps \in ArraysUpTo(DependencyIds, MaxDeps)}
    \cup
    {[Config({"retryAttempts", "timeoutMs"}, <<>>, r, "restart") EXCEPT !.timeoutMs = t] :
        r \in 0..MaxInitRetry, t \in {0, DefaultTimeoutMs}}

NextConfig ==
    \/ tasks = <<>> /\ \E name \in ConfigNames, config \in ConfigInputs : RegisterPlugin(name, config)
    \/ tasks = <<>> /\ InitializePluginsCall
    \/ \E i \in 1..MaxTasks : InitializeResolves(i)
    \/ \E i \in 1..MaxTasks : InitializeRejects(i)
    \/ \E i \in 1..MaxTasks : InitializeTimesOut(i)
    \/ \E i \in 1..MaxTasks : BackoffElapses(i)
    \/ BackoffPending /\ AdvanceClock(NextTimer)

SpecConfig == Init /\ [][NextConfig]_vars

----------------------------------------------------------------------------
\* Timeouts: plugins without dependencies and one initializePlugins call;
\* plugin.initialize resolves or rejects in time, or the timer fires first and
\* the call settles at some later time

LatePhases == {"resolved late", "rejected late"}

NextTimeout ==
    \/ /\ tasks = <<>>
       /\ \E name \in RetryNames, r \in 1..MaxInitRetry :
             RegisterPlugin(name, Config({"retryAttempts"}, <<>>, r, "restart"))
    \/ tasks = <<>> /\ InitializePluginsCall
    \/ \E i \in 1..MaxTasks : InitializeResolves(i)
    \/ \E i \in 1..MaxTasks : InitializeRejects(i)
    \/ \E i \in 1..MaxTasks : InitializeTimesOut(i)
    \/ \E i \in 1..MaxTasks, ref \in 1..MaxEntries, phase \in LatePhases :
          LateInitializeSettles(i, ref, phase)
    \/ \E i \in 1..MaxTasks : BackoffElapses(i)
    \/ Tick
    \/ TaskTimerPending /\ AdvanceClock(NextTimer)

SpecTimeout == Init /\ [][NextTimeout]_vars

----------------------------------------------------------------------------
\* The dependency graph, for stating the properties

DepsOf(name) == IF MapHas(dependencies, name) THEN Range(MapGet(dependencies, name)) ELSE {}

\* the ids reached from the ids of S along at most k further dependency edges
RECURSIVE ReachedWithin(_, _)
ReachedWithin(S, k) ==
    IF k = 0 THEN S
    ELSE ReachedWithin(S \cup UNION {DepsOf(n) : n \in S}, k - 1)

\* the ids name depends on, directly or not
Descendants(name) == ReachedWithin(DepsOf(name), Cardinality(PluginNames))

AllDepsRegistered == \A n \in Registered : DepsOf(n) \subseteq Registered

Acyclic == \A n \in Registered : n \notin Descendants(n)

\* name lies on a dependency cycle of length >= 2
OnCycle(name) == \E m \in Descendants(name) : m # name /\ name \in Descendants(m)

IndexOf(s, x) == CHOOSE i \in 1..Len(s) : s[i] = x

Before(s, x, y) == SeqHas(s, x) /\ SeqHas(s, y) /\ IndexOf(s, x) < IndexOf(s, y)

InitializePluginsTasks == {i \in 1..Len(tasks) : tasks[i].kind = "initializePlugins"}

\* the walk over the graph as it is now
WalkNow == resolveInitializationOrder(plugins, dependencies)

\* path ends with an id that occurs earlier in it, and from there on it follows dependency edges
ClosesCycle(path) ==
    /\ Len(path) >= 2
    /\ LET k == IndexOf(path, path[Len(path)])
       IN  /\ k < Len(path)
           /\ \A i \in k..(Len(path) - 1) : path[i + 1] \in DepsOf(path[i])

\* C1: for every acyclic dependency graph whose dependencies are all registered,
\* resolveInitializationOrder returns (does not throw) an order in which every
\* dependency comes before every plugin that depends on it; and the order an
\* initializePlugins call works through has every dependency before its dependent.
C1_DependenciesFirst ==
    /\ (AllDepsRegistered /\ Acyclic) =>
          /\ WalkNow.thrown = NoError
          /\ \A n \in Registered : \A d \in DepsOf(n) : Before(WalkNow.initOrder, d, n)
    /\ \A i \in InitializePluginsTasks :
          \A n \in Range(tasks[i].initOrder) : \A d \in DepsOf(n) :
             Before(tasks[i].initOrder, d, n)

\* C1 witness: an initializePlugins call resolved three plugins with two dependency
\* edges into an order that is not the registration order
C1_Witness ==
    \E i \in InitializePluginsTasks :
        /\ Len(tasks[i].initOrder) = 3
        /\ tasks[i].initOrder # MapKeys(plugins)
        /\ Len(dependencies) >= 2

\* C2 as stated: every graph with a cycle of length >= 2 fails with CircularDependency
\* and the reported path contains every id that lies on such a cycle
C2_AsStated ==
    \A n \in Registered : OnCycle(n) =>
        /\ WalkNow.thrown.error = "Circular dependency detected"
        /\ n \in Range(WalkNow.thrown.cycle)

\* C2 amended: when every declared dependency is registered and the graph has a
\* cycle of length >= 2, resolution fails with CircularDependency and the reported
\* path contains every id of one cycle of the graph: it ends with the revisited id
\* and, from that id's first occurrence on, follows dependency edges. The same holds
\* of the error an initializePlugins call rejected with.
C2_CycleReported ==
    /\ (AllDepsRegistered /\ \E n \in Registered : OnCycle(n)) =>
          /\ WalkNow.thrown.error = "Circular dependency detected"
          /\ ClosesCycle(WalkNow.thrown.cycle)
    /\ \A i \in InitializePluginsTasks :
          tasks[i].error.message = "Circular dependency detected" =>
             /\ tasks[i].pc = "rejected"
             /\ ClosesCycle(tasks[i].error.context.cycle)

\* C2 witness: an initializePlugins call was rejected with a reported path through
\* two or more distinct ids, in a graph whose dependencies are all registered
C2_Witness ==
    \E i \in InitializePluginsTasks :
        /\ tasks[i].pc = "rejected"
        /\ tasks[i].error.message = "Circular dependency detected"
        /\ Cardinality(Range(tasks[i].error.context.cycle)) >= 2
        /\ AllDepsRegistered
        /\ \E n \in Registered : OnCycle(n)

----------------------------------------------------------------------------
\* The calls and log entries of one task, for stating the properties

IsInitializeCall(e, i) == e.op = "initialize" /\ e.phase = "call" /\ e.by = i

IsInitializeResolved(e, i) == e.op = "initialize" /\ e.phase = "resolved" /\ e.by = i

IsAttemptError(e, i) == e.level = "error" /\ e.msg = "Plugin initialization failed" /\ e.by = i

\* the plugins whose initialize task i called, in the order of the calls
InitializeCallsBy(i) ==
    LET made == SelectSeq(calls, LAMBDA e : IsInitializeCall(e, i))
    IN  [k \in 1..Len(made) |-> made[k].plugin]

\* s without the repetitions of an element right after itself
RECURSIVE Collapse(_)
Collapse(s) ==
    IF Len(s) <= 1 THEN s
    ELSE LET init == Collapse(SubSeq(s, 1, Len(s) - 1))
         IN  IF init[Len(init)] = s[Len(s)] THEN init ELSE Append(init, s[Len(s)])

IsPrefix(s, t) == Len(s) <= Len(t) /\ SubSeq(t, 1, Len(s)) = s

\* x depends on y, y depends on z, and these are all the plugins and edges
Chain(x, y, z) ==
    /\ Cardinality({x, y, z}) = 3
    /\ Registered = {x, y, z}
    /\ DepsOf(x) = {y} /\ DepsOf(y) = {z} /\ DepsOf(z) = {}

\* the declared dependencies of an entry
DeclaredDeps(ref) == Range(heap[ref].config.dependencies)

ExhaustsInStep(i) ==
    /\ tasks[i].kind = "initializePlugins"
    /\ tasks[i].pc = "initialize"
    /\ tasks[i].attempts + 1 = tasks[i].retryAttempts
    /\ tasks'[i] # tasks[i]
    /\ heap'[tasks[i].entry].metrics.errorCount = heap[tasks[i].entry].metrics.errorCount + 1

\* a call that failed on an exhausted plugin has called initialize only of the plugins
\* up to that one in its order, and the plugins it initialized are initialized
StoppedAtFailure(i) ==
    (tasks[i].kind = "initializePlugins" /\ tasks[i].pc = "rejected"
        /\ tasks[i].error.message = "Failed to initialize plugin") =>
       /\ Range(InitializeCallsBy(i)) \subseteq Range(SubSeq(tasks[i].initOrder, 1, tasks[i].idx))
       /\ \A k \in 1..Len(calls) :
             IsInitializeResolved(calls[k], i) => heap[calls[k].entry].isInitialized

\* what C4 says of one step
FailureStopsTheRunStep ==
    /\ \A i \in 1..Len(tasks) : ExhaustsInStep(i) =>
          /\ tasks'[i].pc = "rejected"
          /\ tasks'[i].error.message = "Failed to initialize plugin"
          /\ \A k \in (Len(calls) + 1)..Len(calls') : calls'[k].phase # "call"
          /\ \A ref \in 1..Len(heap) : heap[ref].isInitialized => heap'[ref].isInitialized
    /\ \A j \in 1..Len(tasks') : StoppedAtFailure(j)'

CountFrom(s, base, P(_)) == Cardinality({k \in (base + 1)..Len(s) : P(s[k])})

\* the step in which the plugin.initialize call that task i awaits resolves
ResolvesInStep(i) ==
    /\ tasks[i].pc = "initialize"
    /\ Len(calls') > Len(calls)
    /\ calls'[Len(calls) + 1] =
          CallEvent("initialize", tasks[i].entry, heap[tasks[i].entry].plugin, i, "resolved")

\* C5: when initialize resolves after k failed attempts of an initializePlugin run
\* (necessarily k < retryAttempts), the run has called initialize k + 1 times and
\* logged k errors, the entry gets isInitialized = true, and the run returns: the
\* call goes on to the next plugin or resolves.
C5_RetriesThenSucceeds ==
    [][\A i \in 1..Len(tasks) : ResolvesInStep(i) =>
          LET k == tasks[i].attempts
          IN  /\ k < tasks[i].retryAttempts
              /\ tasks[i].started = k + 1
              /\ CountFrom(calls, tasks[i].callBase, LAMBDA e : IsInitializeCall(e, i)) = k + 1
              /\ CountFrom(log', tasks[i].logBase, LAMBDA e : e.level = "error" /\ e.by = i) = k
              /\ heap'[tasks[i].entry].isInitialized
              /\ tasks'[i].pc # "rejected"
              /\ tasks'[i].pc = "resolved" \/ tasks'[i].idx = tasks[i].idx + 1]_vars

\* C5 witness: with retryAttempts = 3 a plugin failed twice and then succeeded
C5_Witness ==
    \E i \in InitializePluginsTasks :
        /\ tasks[i].pc = "resolved"
        /\ tasks[i].retryAttempts = 3
        /\ tasks[i].attempts = 2
        /\ tasks[i].started = 3
        /\ heap[tasks[i].entry].isInitialized

\* the cause of the last failed attempt of task i: a rejection is the last event of
\* the task, a timeout leaves the call as the last event
LastCause(i) ==
    LET mine == SelectSeq(calls, LAMBDA e : e.by = i)
    IN  IF mine[Len(mine)].phase = "rejected" THEN "initialize rejected"
        ELSE "Initialization timeout"

----------------------------------------------------------------------------
\* Registration and termination

EdgesOf(deps, name) == IF MapHas(deps, name) THEN MapGet(deps, name) ELSE <<>>

IsDuplicateRegistration(name) ==
    /\ MapHas(plugins, name)
    /\ callResult' # callResult
    /\ callResult'.op = "registerPlugin"
    /\ callResult'.name = name

DuplicateRegistrationStep ==
    \A name \in PluginNames :
        IsDuplicateRegistration(name) =>
            /\ callResult'.error = "Plugin already registered"
            /\ plugins' = plugins
            /\ heap' = heap
            /\ dependencies' = dependencies

\* C7: a registerPlugin call for an id that is registered already fails with
\* 'Plugin already registered' and changes nothing: the map of entries, every
\* entry (instance, config, isInitialized, metrics) and every dependency set are
\* after the call what they were before it
C7_DuplicateRegistration == [][DuplicateRegistrationStep]_vars

\* C7 witness: a registration of an initialized plugin that has a dependency was
\* refused, and the plugin is still initialized, with its dependency
C7_Witness ==
    /\ callResult.op = "registerPlugin"
    /\ callResult.error = "Plugin already registered"
    /\ MapHas(plugins, callResult.name)
    /\ heap[MapGet(plugins, callResult.name)].isInitialized
    /\ Len(EdgesOf(dependencies, callResult.name)) > 0
    /\ Len(heap) = Len(plugins)

\* destroy of terminatePlugin's frame i settles in this step, as phase says
TerminateSettles(i, phase) ==
    /\ i <= Len(tasks)
    /\ tasks[i].kind = "terminatePlugin"
    /\ tasks[i].pc = "destroy"
    /\ calls' = Append(calls, CallEvent("destroy", tasks[i].entry, heap[tasks[i].entry].plugin, i, phase))

FailedDestroyStep ==
    \A i \in 1..MaxTasks :
        TerminateSettles(i, "rejected") =>
            /\ log' = Append(log, [level |-> "error", msg |-> "Plugin termination failed",
                                   name |-> tasks[i].name, by |-> i])
            /\ tasks'[i].pc = "resolved"
            /\ tasks'[i].error = NoFailure
            /\ plugins' = plugins
            /\ dependencies' = dependencies
            /\ heap' = heap

\* C8: when destroy rejects inside terminatePlugin, one error 'Plugin termination
\* failed' is logged, terminatePlugin resolves (nothing is raised to the caller),
\* and the entries, the dependency sets, isInitialized and the metrics of every
\* plugin are unchanged
C8_FailedDestroyKeepsEntry == [][FailedDestroyStep]_vars

\* C8 witness: after a terminatePlugin whose destroy rejected, a second
\* terminatePlugin of the same, still initialized plugin is awaiting destroy
C8_Witness ==
    /\ Len(tasks) = 2
    /\ tasks[1].kind = "terminatePlugin" /\ tasks[1].pc = "resolved"
    /\ tasks[2].kind = "terminatePlugin" /\ tasks[2].pc = "destroy"
    /\ tasks[2].name = tasks[1].name /\ tasks[2].entry = tasks[1].entry
    /\ \E k \in 1..Len(calls) : calls[k] = CallEvent("destroy", tasks[1].entry, tasks[1].name, 1, "rejected")
    /\ \E k \in 1..Len(log) : log[k] = [level |-> "error", msg |-> "Plugin termination failed",
                                        name |-> tasks[1].name, by |-> 1]
    /\ MapHas(plugins, tasks[1].name)
    /\ MapHas(dependencies, tasks[1].name)

\* the registered plugins that have id among their dependencies
DependentsOf(pl, deps, id) == {m \in Range(MapKeys(pl)) : SeqHas(EdgesOf(deps, m), id)}

TerminateRemovesStep ==
    \A i \in 1..MaxTasks :
        TerminateSettles(i, "resolved") =>
            /\ ~MapHas(plugins', tasks[i].name)
            /\ ~MapHas(dependencies', tasks[i].name)
            /\ DependentsOf(plugins', dependencies', tasks[i].name) = {}

\* C9: when destroy resolves inside terminatePlugin, the id is not registered any
\* more and no dependency edge mentions it: it has no dependency set of its own and
\* it is in the dependency set of no registered plugin
C9_TerminateRemovesAllEdges == [][TerminateRemovesStep]_vars

\* C9, the state that refutes it: a plugin was terminated with a destroy that
\* resolved, it is not registered, and a registered plugin still depends on it
C9_Witness ==
    \E i \in 1..Len(tasks) :
        /\ tasks[i].kind = "terminatePlugin" /\ tasks[i].pc = "resolved"
        /\ \E k \in 1..Len(calls) : calls[k] = CallEvent("destroy", tasks[i].entry, tasks[i].name, i, "resolved")
        /\ ~MapHas(plugins, tasks[i].name)
        /\ DependentsOf(plugins, dependencies, tasks[i].name) # {}

----------------------------------------------------------------------------
\* The monitor

IsHeartbeatWarning(e, name) ==
    e.level = "warn" /\ e.msg = "Plugin heartbeat timeout" /\ e.name = name

HeartbeatWarnings(name) == CountFrom(log, 0, LAMBDA e : IsHeartbeatWarning(e, name))

\* every interval callback that is due at the current time has run
TicksDone == clock < nextTick

\* the time that has passed since the plugin was registered
SinceRegistration(name) == clock - heap[MapGet(plugins, name)].metrics.lastHeartbeat

\* C10: 31,000 ms after a plugin was registered, all the ticks due by then having
\* run, the log holds exactly one 'Plugin heartbeat timeout' warning for the plugin
C10_OneWarningAfter31s ==
    \A name \in Registered :
        (SinceRegistration(name) = 31000 /\ TicksDone) => HeartbeatWarnings(name) = 1

\* C10, the state that refutes it: 31,000 ms after a plugin was registered at time
\* 0, three ticks have run and there is no warning for the plugin
C10_Witness ==
    \E name \in Registered :
        /\ heap[MapGet(plugins, name)].metrics.lastHeartbeat = 0
        /\ clock = 31000
        /\ nextTick = 40000
        /\ HeartbeatWarnings(name) = 0

----------------------------------------------------------------------------
\* Recovery

\* an initializePlugin run of frame i is in progress: it awaits plugin.initialize
\* or the wait before the next attempt
InitializationInFlight(i) == tasks[i].pc \in {"initialize", "backoff"}

\* C11: at no time are two initializePlugin runs in progress for the same plugin
C11_NoDoubleInitialization ==
    \A i, j \in 1..Len(tasks) :
        (i # j /\ InitializationInFlight(i) /\ InitializationInFlight(j))
            => tasks[i].name # tasks[j].name

\* C11, the state that refutes it: while initializePlugins awaits plugin.initialize
\* of an entry, a restartPlugin started by the monitor awaits a second
\* plugin.initialize call of the same entry
C11_Witness ==
    \E i, j \in 1..Len(tasks) :
        /\ tasks[i].kind = "initializePlugins" /\ tasks[i].pc = "initialize"
        /\ tasks[j].kind = "restartPlugin" /\ tasks[j].origin = "monitor"
        /\ tasks[j].pc = "initialize"
        /\ tasks[i].entry = tasks[j].entry

\* destroy of restartPlugin's frame i settles in this step, as phase says
RestartSettles(i, phase) ==
    /\ i <= Len(tasks)
    /\ tasks[i].kind = "restartPlugin"
    /\ tasks[i].pc = "destroy"
    /\ Len(calls') > Len(calls)
    /\ calls'[Len(calls) + 1] =
          CallEvent("destroy", tasks[i].entry, heap[tasks[i].entry].plugin, i, phase)

BestEffortDestroyStep ==
    \A i \in 1..MaxTasks :
        RestartSettles(i, "rejected") =>
            /\ Len(log') > Len(log)
            /\ log'[Len(log) + 1].level = "error"
            /\ ~heap'[tasks[i].entry].isInitialized
            /\ Len(calls') = Len(calls) + 2
            /\ calls'[Len(calls) + 2] =
                  CallEvent("initialize", tasks[i].entry, heap[tasks[i].entry].plugin, i, "call")

\* C12: when destroy rejects inside restartPlugin, the error is logged, the entry
\* is marked isInitialized = false, and initializePlugin is run again for the
\* plugin (plugin.initialize is called)
C12_RestartDestroyBestEffort == [][BestEffortDestroyStep]_vars

\* C12, the state that refutes it: a restartPlugin of an initialized plugin has
\* ended after destroy rejected; the plugin is still marked initialized and the
\* restart has made no plugin.initialize call
C12_Witness ==
    \E i \in 1..Len(tasks) :
        /\ tasks[i].kind = "restartPlugin" /\ tasks[i].pc = "resolved"
        /\ \E k \in 1..Len(calls) :
              calls[k] = CallEvent("destroy", tasks[i].entry, tasks[i].name, i, "rejected")
        /\ heap[tasks[i].entry].isInitialized
        /\ \A k \in 1..Len(calls) : ~(calls[k].op = "initialize" /\ calls[k].by = i)

IsRecovery(i) == tasks[i].kind \in {"restartPlugin", "terminatePlugin"}

\* every registered id leads to its own entry
RegistryWellFormed ==
    \A k \in 1..Len(plugins) :
        /\ plugins[k].value \in 1..Len(heap)
        /\ heap[plugins[k].value].plugin = plugins[k].key
        /\ \A j \in 1..Len(plugins) : plugins[j].key = plugins[k].key => j = k

IsFailoverLog(e, name) ==
    e.level = "info" /\ e.msg = "Failover initiated for plugin" /\ e.name = name

\* C15: when initializePlugins has rejected because a plugin with recoveryStrategy
\* 'failover' exhausted its retries, 'Failover initiated for plugin' has been
\* logged for that plugin
C15_FailoverOnExhaustedRetries ==
    \A i \in InitializePluginsTasks :
        (/\ tasks[i].pc = "rejected"
         /\ tasks[i].error.message = "Failed to initialize plugin"
         /\ heap[tasks[i].entry].config.errorHandling.recoveryStrategy = "failover")
            => \E k \in 1..Len(log) : IsFailoverLog(log[k], tasks[i].name)

\* C15, the state that refutes it: a plugin registered with recoveryStrategy
\* 'failover' and the default three attempts has failed three times,
\* initializePlugins has rejected, and no failover has been logged
C15_Witness ==
    \E i \in InitializePluginsTasks :
        /\ tasks[i].pc = "rejected"
        /\ tasks[i].error.message = "Failed to initialize plugin"
        /\ tasks[i].error.attempts = DefaultRetryAttempts
        /\ heap[tasks[i].entry].config.errorHandling.recoveryStrategy = "failover"
        /\ \A k \in 1..Len(log) : ~IsFailoverLog(log[k], tasks[i].name)

\* call event e is the beginning of a restart of entry ref
RestartBegins(e, ref) ==
    /\ e.op = "destroy" /\ e.phase = "call" /\ e.entry = ref
    /\ tasks[e.by].kind = "restartPlugin"

\* C17: an entry is marked isInitialized only if a plugin.initialize call made for
\* it has resolved since it was registered and since its last restart began
C17_InitializedOnlyAfterSuccess ==
    \A ref \in 1..Len(heap) :
        heap[ref].isInitialized =>
            \E k \in 1..Len(calls) :
                /\ calls[k].op = "initialize" /\ calls[k].phase = "resolved"
                /\ calls[k].entry = ref
                /\ \A j \in (k + 1)..Len(calls) : ~RestartBegins(calls[j], ref)

\* C17, the state that refutes it: a restart of an initialized entry has ended
\* with a rejected destroy, no plugin.initialize call has resolved since the
\* restart began, and the entry is still marked initialized
C17_Witness ==
    \E i \in 1..Len(tasks) :
        /\ tasks[i].kind = "restartPlugin" /\ tasks[i].pc = "resolved"
        /\ heap[tasks[i].entry].isInitialized
        /\ \E j \in 1..Len(calls) :
              /\ RestartBegins(calls[j], tasks[i].entry) /\ calls[j].by = i
              /\ \A k \in (j + 1)..Len(calls) :
                    ~(calls[k].op = "initialize" /\ calls[k].phase = "resolved")

----------------------------------------------------------------------------
\* Cycles and missing dependencies at registration and at resolution

\* C14: registerPlugin rejects a plugin whose dependencies close a cycle with the
\* registered plugins, so the registered plugins never form a dependency cycle
\* (of two or more plugins) and the last registerPlugin call has not accepted one
C14_RegistrationRejectsCycle ==
    \A n \in Registered : ~OnCycle(n)

\* C14, the state that refutes it: a was registered with a dependency on b, and
\* registerPlugin has accepted b with a dependency on a
C14_Witness ==
    /\ callResult = [op |-> "registerPlugin", name |-> "b", error |-> "none"]
    /\ MapKeys(plugins) = <<"a", "b">>
    /\ DepsOf("a") = {"b"}
    /\ DepsOf("b") = {"a"}

\* thrown is a MissingDependency error that names an unregistered id and a
\* registered plugin that declares it
NamesMissingDependency(thrown) ==
    /\ thrown.error = "Missing dependency"
    /\ thrown.plugin \in Registered
    /\ thrown.dep \in DepsOf(thrown.plugin)
    /\ thrown.dep \notin Registered

\* C16 as stated: whenever a registered plugin declares an unregistered
\* dependency, resolution fails with MissingDependency naming the missing id and
\* the plugin that requires it
C16_AsStated ==
    ~AllDepsRegistered => NamesMissingDependency(WalkNow.thrown)

\* C16 amended: whenever a registered plugin declares an unregistered dependency,
\* resolution fails; it fails with MissingDependency, naming an unregistered id
\* and a registered plugin that declares it, unless the walk closes a dependency
\* cycle first, and then it fails with CircularDependency; in a graph without a
\* cycle it is always MissingDependency. A plugin can be registered before its
\* dependency, and once every dependency is registered an acyclic graph resolves.
\* An initializePlugins call rejects with the error of the resolution.
C16_MissingDependency ==
    /\ ~AllDepsRegistered =>
          \/ NamesMissingDependency(WalkNow.thrown)
          \/ /\ WalkNow.thrown.error = "Circular dependency detected"
             /\ ClosesCycle(WalkNow.thrown.cycle)
             /\ ~Acyclic
    /\ (AllDepsRegistered /\ Acyclic) => WalkNow.thrown = NoError
    /\ \A i \in InitializePluginsTasks :
          tasks[i].error.message = "Missing dependency" =>
             /\ tasks[i].pc = "rejected"
             /\ tasks[i].error.code = "CONFIGURATION_ERROR"
             /\ tasks[i].error.context.dep \in DepsOf(tasks[i].error.context.plugin)
             /\ tasks[i].initOrder = <<>>

\* C16 witness: initializePlugins rejected with 'Missing dependency: b for plugin a',
\* b has been registered since, after a, and the graph resolves with b before a
C16_Witness ==
    \E i \in InitializePluginsTasks :
        /\ tasks[i].pc = "rejected"
        /\ tasks[i].error.context = MissingDependency("b", "a")
        /\ Before(MapKeys(plugins), "a", "b")
        /\ WalkNow.thrown = NoError
        /\ Before(WalkNow.initOrder, "b", "a")

----------------------------------------------------------------------------
\* Configurations

\* C18: every registered entry has retryAttempts >= 1, timeoutMs > 0 and one of
\* the three recovery strategies
C18_ErrorHandlingRanges ==
    \A ref \in 1..Len(heap) :
        LET errorHandling == heap[ref].config.errorHandling
        IN  /\ errorHandling.retryAttempts >= 1
            /\ errorHandling.timeoutMs > 0
            /\ errorHandling.recoveryStrategy \in RecoveryStrategies

\* C18, the state that refutes it: a plugin was registered with retryAttempts = 0,
\* and initializePlugins has resolved without a plugin.initialize call and without
\* marking the plugin initialized
C18_Witness ==
    \E i \in InitializePluginsTasks :
        /\ tasks[i].pc = "resolved"
        /\ tasks[i].initOrder # <<>>
        /\ calls = <<>>
        /\ \A ref \in 1..Len(heap) :
              /\ heap[ref].config.errorHandling.retryAttempts = 0
              /\ ~heap[ref].isInitialized

HasEmptyDependency(config) ==
    "dependencies" \in config.given /\ SeqHas(config.dependencies, "")

NothingRegistered ==
    /\ plugins' = plugins
    /\ heap' = heap
    /\ dependencies' = dependencies

EmptyDependencyAsStatedStep ==
    \A name \in ConfigNames, config \in ConfigInputs :
        (HasEmptyDependency(config) /\ RegisterPlugin(name, config)) =>
            /\ callResult'.error = "Invalid dependencies configuration for plugin"
            /\ NothingRegistered

\* C19 as stated: every registerPlugin call with an empty dependency id fails with
\* 'Invalid dependencies configuration for plugin' and adds nothing to the
\* plugins and to the dependency sets
C19_AsStated == [][EmptyDependencyAsStatedStep]_vars

EmptyDependencyStep ==
    \A name \in ConfigNames, config \in ConfigInputs :
        (HasEmptyDependency(config) /\ RegisterPlugin(name, config)) =>
            /\ callResult'.error =
                  IF name \in Registered THEN "Plugin already registered"
                  ELSE "Invalid dependencies configuration for plugin"
            /\ NothingRegistered

\* C19 amended: every registerPlugin call with an empty dependency id fails and
\* adds nothing to the plugins and to the dependency sets; it fails with 'Invalid
\* dependencies configuration for plugin' when the id is not registered yet, and
\* with 'Plugin already registered' when it is
C19_EmptyDependencyRejected == [][EmptyDependencyStep]_vars

\* C19 witness: with a plugin registered, the registration of another one with
\* an empty dependency id has been refused, and only the first one is registered
C19_Witness ==
    /\ callResult.op = "registerPlugin"
    /\ callResult.error = "Invalid dependencies configuration for plugin"
    /\ Len(plugins) = 1
    /\ Len(heap) = 1
    /\ callResult.name \notin Registered

----------------------------------------------------------------------------
\* Timeouts

\* frame i is in the race of an attempt and in this step the timer wins it: the
\* frame goes on although no plugin.initialize call has settled
TimerWins(i) ==
    /\ i <= Len(tasks)
    /\ tasks[i].pc = "initialize"
    /\ clock >= tasks[i].deadline
    /\ calls' = calls
    /\ tasks'[i] # tasks[i]

TimeoutStep ==
    \A i \in 1..MaxTasks :
        TimerWins(i) =>
            LET ref == tasks[i].entry
            IN  /\ heap'[ref].metrics.errorCount = heap[ref].metrics.errorCount + 1
                /\ heap'[ref].isInitialized = heap[ref].isInitialized
                /\ log' = Append(log, [level |-> "error", msg |-> "Plugin initialization failed",
                                       name |-> tasks[i].name, by |-> i])
                /\ IF tasks[i].attempts + 1 = tasks[i].retryAttempts
                   THEN /\ tasks'[i].pc = "rejected"
                        /\ tasks'[i].error.cause = "Initialization timeout"
                        /\ tasks'[i].error.attempts = tasks[i].retryAttempts
                   ELSE /\ tasks'[i].pc = "backoff"
                        /\ tasks'[i].attempts = tasks[i].attempts + 1

IsLateSettling(e) == e.op = "initialize" /\ e.phase \in LatePhases

LateSettlingStep ==
    (Len(calls') = Len(calls) + 1 /\ IsLateSettling(calls'[Len(calls')])) =>
        /\ heap' = heap
        /\ tasks' = tasks
        /\ log' = log
        /\ plugins' = plugins
        /\ dependencies' = dependencies

\* C20: when the timer of an attempt fires before plugin.initialize has settled,
\* the attempt fails with 'Initialization timeout' and is counted like any failed
\* attempt (errorCount, attempts, log, retry or rejection); and when that
\* plugin.initialize call settles later, nothing changes: not isInitialized, not
\* errorCount, not the state or outcome of any call
C20_TimeoutCancelsTheWaitOnly == [][TimeoutStep /\ LateSettlingStep]_vars

\* C20 witness: initializePlugins rejected after a timeout, the plugin.initialize
\* call of that attempt has resolved since, and the plugin is not initialized
C20_Witness ==
    \E i \in InitializePluginsTasks :
        /\ tasks[i].pc = "rejected"
        /\ tasks[i].error.cause = "Initialization timeout"
        /\ calls[Len(calls)] = CallEvent("initialize", tasks[i].entry, tasks[i].name, i, "resolved late")
        /\ ~heap[tasks[i].entry].isInitialized
        /\ heap[tasks[i].entry].metrics.errorCount = tasks[i].retryAttempts

----------------------------------------------------------------------------
\* The monitor's recovery calls

\* the step in which the interval callback runs
TickStep == nextTick' # nextTick

StrategyOf(name) == heap[MapGet(plugins, name)].config.errorHandling.recoveryStrategy

ErrorCountOf(name) == heap[MapGet(plugins, name)].metrics.errorCount

\* what handlePluginFailure logs first under each strategy
RecoveryMessage(strategy) ==
    CASE strategy = "restart" -> "Restarting plugin"
      [] strategy = "failover" -> "Failover initiated for plugin"
      [] strategy = "terminate" -> "Terminating plugin"

\* the number of times recovery by the strategy began for the plugin in this step
HandledInStep(name, strategy) ==
    CountFrom(log', Len(log), LAMBDA e : e.msg = RecoveryMessage(strategy) /\ e.name = name)

OverThreshold == {name \in Registered : ErrorCountOf(name) > 10}

HandleFailureStep ==
    TickStep =>
        /\ \A name \in PluginNames, strategy \in RecoveryStrategies :
              HandledInStep(name, strategy) =
                  IF name \in OverThreshold /\ StrategyOf(name) = strategy THEN 1 ELSE 0
        /\ Len(tasks') - Len(tasks) =
              Cardinality({name \in OverThreshold : StrategyOf(name) \in {"restart", "terminate"}})
        /\ \A k \in (Len(tasks) + 1)..Len(tasks') :
              /\ tasks'[k].origin = "monitor"
              /\ tasks'[k].name \in OverThreshold
              /\ tasks'[k].kind = IF StrategyOf(tasks'[k].name) = "restart"
                                  THEN "restartPlugin" ELSE "terminatePlugin"

\* C21: in every tick, recovery begins exactly once for each registered entry whose
\* errorCount is greater than 10 and not at all for an entry whose errorCount is 10
\* or less, and it is the recovery of that entry's own recoveryStrategy: restart,
\* failover or terminate, and no other
C21_HandleFailureOverThreshold == [][HandleFailureStep]_vars

\* a tick has restarted "a", which is over the threshold, and has left alone "b",
\* which is not and whose strategy is another one
C21_Witness ==
    /\ \E i \in 1..Len(tasks) :
          tasks[i].origin = "monitor" /\ tasks[i].kind = "restartPlugin" /\ tasks[i].name = "a"
    /\ "a" \in Registered /\ "b" \in Registered
    /\ StrategyOf("b") = "terminate"
    /\ ErrorCountOf("b") <= 10
    /\ ErrorCountOf("b") > 0

\* the heartbeat warnings a tick at the current time logs: one for each registered
\* entry, in the order of the map, whose last heartbeat is more than 30,000 ms old
DueWarnings ==
    LET late == SelectSeq(MapKeys(plugins), LAMBDA name : SinceRegistration(name) > 30000)
    IN  [k \in 1..Len(late) |->
            [level |-> "warn", msg |-> "Plugin heartbeat timeout", name |-> late[k], by |-> 0]]

QuietTickStep ==
    (TickStep /\ OverThreshold = {}) =>
        /\ plugins' = plugins
        /\ dependencies' = dependencies
        /\ heap' = heap
        /\ tasks' = tasks
        /\ calls' = calls
        /\ log' = log \o DueWarnings

\* C22: a tick in which no registered entry has errorCount greater than 10 changes
\* neither the registered ids nor the dependency edges nor any entry's isInitialized,
\* lastHeartbeat, errorCount and warningCount, calls no plugin and starts nothing;
\* all it does is to log the heartbeat warnings that are due
C22_QuietTickChangesNothing == [][QuietTickStep]_vars

\* the last tick has logged a heartbeat warning and nothing else, with an entry that
\* has failed but is not over the threshold, and no warning was counted
C22_Witness ==
    /\ TicksDone
    /\ log # <<>>
    /\ log[Len(log)].msg = "Plugin heartbeat timeout"
    /\ OverThreshold = {}
    /\ \E name \in Registered : ErrorCountOf(name) = 10
    /\ \A ref \in 1..Len(heap) : heap[ref].metrics.warningCount = 0

----------------------------------------------------------------------------
\* The wait between two attempts

\* the step in which an attempt of task i fails
AttemptFailsInStep(i) ==
    /\ i <= Len(tasks)
    /\ tasks[i].pc = "initialize"
    /\ Len(log') > Len(log)
    /\ IsAttemptError(log'[Len(log) + 1], i)

\* the calls of plugin.initialize made in this step
InitializeCallsInStep ==
    {k \in (Len(calls) + 1)..Len(calls') : calls'[k].op = "initialize" /\ calls'[k].phase = "call"}

BackoffStep ==
    \A i \in 1..MaxTasks :
        /\ AttemptFailsInStep(i) =>
              LET failed == tasks[i].attempts + 1
              IN  IF failed < tasks[i].retryAttempts
                  THEN /\ tasks'[i].pc = "backoff"
                       /\ tasks'[i].deadline = clock + 1000 * failed
                       /\ InitializeCallsInStep = {}
                  ELSE /\ tasks'[i].pc = "rejected"
                       /\ tasks'[i].error.message = "Failed to initialize plugin"
                       /\ InitializeCallsInStep = {}
        /\ (i <= Len(tasks) /\ tasks[i].pc = "backoff" /\ tasks'[i] # tasks[i]) =>
              /\ clock >= tasks[i].deadline
              /\ tasks'[i].pc = "initialize"
              /\ calls' = Append(calls, CallEvent("initialize", tasks[i].entry, tasks[i].name, i, "call"))

\* C23: when attempt number k of an initializePlugin run fails and k is less than
\* retryAttempts, the run waits until 1000 * k ms after the failure and calls
\* plugin.initialize again no earlier than that; when k = retryAttempts the run
\* rejects in the step of the failure, without a wait
C23_BackoffBetweenAttempts == [][BackoffStep]_vars

\* the third attempt has been started, 1000 ms + 2000 ms after two attempts that
\* were rejected at once
C23_Witness ==
    \E i \in 1..Len(tasks) :
        /\ tasks[i].pc = "initialize"
        /\ tasks[i].attempts = 2
        /\ tasks[i].started = 3
        /\ clock = 3000

----------------------------------------------------------------------------
\* The path of a CircularDependency error

\* C24: when resolveInitializationOrder fails with CircularDependency, the reported
\* path begins and ends with the revisited id and every id in it lies on a
\* dependency cycle
C24_PathIsTheCycle ==
    WalkNow.thrown.error = "Circular dependency detected" =>
        LET cycle == WalkNow.thrown.cycle
        IN  /\ cycle[1] = cycle[Len(cycle)]
            /\ \A k \in 1..Len(cycle) : cycle[k] \in Descendants(cycle[k])

\* "a" depends on "b", "b" on "c" and "c" on "b", "a" was registered first, and the
\* reported path is a, b, c, b
C24_Witness ==
    /\ Registered = {"a", "b", "c"}
    /\ MapKeys(plugins)[1] = "a"
    /\ DepsOf("a") = {"b"} /\ DepsOf("b") = {"c"} /\ DepsOf("c") = {"b"}
    /\ WalkNow.thrown.error = "Circular dependency detected"
    /\ WalkNow.thrown.cycle = <<"a", "b", "c", "b">>

----------------------------------------------------------------------------
\* The order of a resolvable graph

\* the post-order of a depth-first walk of an acyclic graph: the ids of names are
\* taken in their order, each one after its dependencies in their declared order,
\* and an id that is in the order already is passed over
RECURSIVE PostOrder(_, _)
PostOrder(names, order) ==
    IF names = <<>> THEN order
    ELSE LET name == Head(names)
         IN  PostOrder(Tail(names),
                IF SeqHas(order, name) THEN order
                ELSE Append(PostOrder(EdgesOf(dependencies, name), order), name))

Resolvable == WalkNow.thrown = NoError

IsPermutationOfRegistered(order) ==
    /\ Len(order) = Cardinality(Registered)
    /\ Range(order) = Registered

RegisteredBefore(n, m) == Before(MapKeys(plugins), n, m)

Independent(n, m) == n # m /\ n \notin Descendants(m) /\ m \notin Descendants(n)

\* C25 as stated: the result for a resolvable graph is a permutation of the
\* registered ids and the post-order of the walk, and any two plugins neither of
\* which depends on the other, directly or not, are in their registration order
C25_AsStated ==
    Resolvable =>
        /\ IsPermutationOfRegistered(WalkNow.initOrder)
        /\ WalkNow.initOrder = PostOrder(MapKeys(plugins), <<>>)
        /\ \A n, m \in Registered :
              (Independent(n, m) /\ RegisteredBefore(n, m)) => Before(WalkNow.initOrder, n, m)

\* C25 amended: the result for a resolvable graph is a permutation of the
\* registered ids and the post-order of the walk that takes the roots in
\* registration order and the dependencies in declared order; a plugin comes before
\* one registered earlier only if it is a dependency, direct or not, of that one or
\* of a plugin registered before that one; so without any dependency the result is
\* the registration order
C25_PostOrderOfTheWalk ==
    Resolvable =>
        /\ IsPermutationOfRegistered(WalkNow.initOrder)
        /\ WalkNow.initOrder = PostOrder(MapKeys(plugins), <<>>)
        /\ \A n, m \in Registered :
              (RegisteredBefore(n, m) /\ Before(WalkNow.initOrder, m, n)) =>
                  \E r \in Registered :
                      /\ r = n \/ RegisteredBefore(r, n)
                      /\ m \in Descendants(r)
        /\ (\A n \in Registered : DepsOf(n) = {}) => WalkNow.initOrder = MapKeys(plugins)

\* an initializePlugins call took the order c, a, b for a, b, c registered in this
\* order, "a" depending on "c": "c" comes before "b", which was registered earlier
\* and does not depend on it
C25_Witness ==
    \E i \in InitializePluginsTasks :
        /\ MapKeys(plugins) = <<"a", "b", "c">>
        /\ DepsOf("a") = {"c"} /\ DepsOf("b") = {} /\ DepsOf("c") = {}
        /\ tasks[i].initOrder = <<"c", "a", "b">>
        /\ WalkNow.initOrder = tasks[i].initOrder

----------------------------------------------------------------------------
\* Resolution over the graph as it is at the call

\* the step in which initializePlugins is called
InitializePluginsCalled ==
    /\ Len(tasks') = Len(tasks) + 1
    /\ tasks'[Len(tasks')].kind = "initializePlugins"

\* what the call that task t stands for got from resolveInitializationOrder
OutcomeOf(t) == [initOrder |-> t.initOrder, thrown |-> t.error.context]

\* what resolveInitializationOrder gives for the registry and graph as they are now
OutcomeNow ==
    IF WalkNow.thrown = NoError
    THEN [initOrder |-> WalkNow.initOrder, thrown |-> NoError]
    ELSE [initOrder |-> <<>>, thrown |-> WalkNow.thrown]

ResolveStep ==
    InitializePluginsCalled =>
        /\ plugins' = plugins
        /\ dependencies' = dependencies
        /\ heap' = heap
        /\ OutcomeOf(tasks'[Len(tasks')]) = OutcomeNow
        /\ (WalkNow.thrown # NoError) => tasks'[Len(tasks')].pc = "rejected"

----------------------------------------------------------------------------
\* The error count of an entry

\* the failed attempts logged for the plugin
FailedAttemptsOf(name) ==
    CountFrom(log, 0, LAMBDA e : e.level = "error" /\ e.msg = "Plugin initialization failed"
                                  /\ e.name = name)

ErrorCountMatches == \A name \in Registered : ErrorCountOf(name) = FailedAttemptsOf(name)

ErrorCountOfEntry(ref) == heap[ref].metrics.errorCount

ErrorCountStep ==
    /\ \A i \in 1..Len(tasks) :
          /\ AttemptFailsInStep(i) =>
                heap'[tasks[i].entry].metrics.errorCount = ErrorCountOfEntry(tasks[i].entry) + 1
          /\ ResolvesInStep(i) =>
                heap'[tasks[i].entry].metrics.errorCount = ErrorCountOfEntry(tasks[i].entry)
    /\ \A ref \in 1..Len(heap) :
          heap'[ref].metrics.errorCount # ErrorCountOfEntry(ref) =>
              \E i \in 1..Len(tasks) : AttemptFailsInStep(i) /\ tasks[i].entry = ref
    /\ \A ref \in (Len(heap) + 1)..Len(heap') : heap'[ref].metrics.errorCount = 0
    /\ ErrorCountMatches'

\* C27: an attempt that fails, by a rejection of plugin.initialize or by the
\* timeout, adds exactly one to the errorCount of its entry, an attempt that
\* succeeds leaves it, nothing else changes it and it is 0 at registration; so
\* the errorCount of a registered entry is at all times the number of attempts
\* that have failed for it, over all the calls made since it was registered
C27_ErrorCountIsFailedAttempts == [][ErrorCountStep]_vars

\* an entry with retryAttempts = 2 has failed three times, in more than one run, at
\* least once by a rejection and at least once by the timeout, and is initialized
C27_Witness ==
    \E name \in Registered :
        LET ref == MapGet(plugins, name)
            rejections == CountFrom(calls, 0, LAMBDA e : e.op = "initialize" /\ e.entry = ref
                                                        /\ e.phase = "rejected")
        IN  /\ heap[ref].config.errorHandling.retryAttempts = 2
            /\ ErrorCountOf(name) = 3
            /\ rejections >= 1
            /\ rejections < 3
            /\ heap[ref].isInitialized

----------------------------------------------------------------------------
\* terminatePlugin of an id that is not registered

\* the step in which terminatePlugin is called with an id that is not registered
TerminateAbsentCalled ==
    /\ Len(tasks') = Len(tasks) + 1
    /\ tasks'[Len(tasks')].kind = "terminatePlugin"
    /\ tasks'[Len(tasks')].name \notin Registered

TerminateAbsentStep ==
    TerminateAbsentCalled =>
        /\ tasks'[Len(tasks')].pc = "resolved"
        /\ tasks'[Len(tasks')].error = NoFailure
        /\ plugins' = plugins
        /\ dependencies' = dependencies
        /\ heap' = heap
        /\ calls' = calls

\* C28: terminatePlugin(name) for a name that is not registered, or not any more,
\* resolves without an error and leaves the registered ids, the dependency edges
\* and the entries as they are, and calls no plugin
C28_TerminateAbsentChangesNothing == [][TerminateAbsentStep]_vars

\* "a" was terminated with success and then terminated again; the second call has
\* resolved, and "b", which depends on "a", is registered as before
C28_Witness ==
    \E k, j \in 1..Len(tasks) :
        /\ k < j
        /\ tasks[k].kind = "terminatePlugin" /\ tasks[k].name = "a" /\ tasks[k].pc = "resolved"
        /\ tasks[k].entry # 0
        /\ tasks[j].kind = "terminatePlugin" /\ tasks[j].name = "a" /\ tasks[j].pc = "resolved"
        /\ tasks[j].entry = 0
        /\ Registered = {"b"}
        /\ DepsOf("b") = {"a"}

----------------------------------------------------------------------------
\* The maps during a tick

TickIteratesStableMapsStep ==
    TickStep => (plugins' = plugins /\ dependencies' = dependencies)

\* C29: from the start to the end of the iteration of a tick no entry is added to
\* or removed from the plugin map and the dependency map, also when the tick
\* starts a restart or a termination and while calls of the caller or earlier
\* recoveries are in flight; a registration and the removal by a termination are
\* steps of their own, before or after the tick
C29_TickIteratesStableMaps == [][TickIteratesStableMapsStep]_vars

\* the last tick has started the termination of a registered plugin, which is still
\* registered, while the termination that an earlier tick started is in flight too
C29_Witness ==
    \E i, j \in 1..Len(tasks) :
        /\ i < j
        /\ TicksDone
        /\ tasks[i].origin = "monitor" /\ tasks[i].kind = "terminatePlugin" /\ tasks[i].pc = "destroy"
        /\ tasks[j].origin = "monitor" /\ tasks[j].kind = "terminatePlugin" /\ tasks[j].pc = "destroy"
        /\ tasks[j].name \in Registered
        /\ log[Len(log)].msg = "Terminating plugin"

----------------------------------------------------------------------------
\* Recovery by failover

FailoverStep ==
    TickStep =>
        \A name \in OverThreshold :
            StrategyOf(name) = "failover" =>
                LET ref == MapGet(plugins, name)
                IN  /\ HandledInStep(name, "failover") = 1
                    /\ MapHas(plugins', name)
                    /\ MapGet(plugins', name) = ref
                    /\ heap'[ref] = heap[ref]
                    /\ EdgesOf(dependencies', name) = EdgesOf(dependencies, name)
                    /\ \A k \in (Len(calls) + 1)..Len(calls') : calls'[k].entry # ref
                    /\ \A k \in (Len(tasks) + 1)..Len(tasks') : tasks'[k].name # name

\* C30: when a tick handles the failure of an entry whose recoveryStrategy is
\* 'failover', it logs 'Failover initiated for plugin' and the entry stays registered
\* with the same isInitialized, metrics, configuration and dependency edges;
\* neither destroy nor initialize of its plugin is called and no restart or
\* termination of it is started
C30_FailoverChangesNothing == [][FailoverStep]_vars

\* the last tick has handled the failure of "a" by failover: "a" is registered and
\* initialized, with the error count it had, and no recovery call was made
C30_Witness ==
    /\ TicksDone
    /\ "a" \in Registered
    /\ StrategyOf("a") = "failover"
    /\ ErrorCountOf("a") = 11
    /\ heap[MapGet(plugins, "a")].isInitialized
    /\ IsFailoverLog(log[Len(log)], "a")
    /\ \A i \in 1..Len(tasks) : tasks[i].origin # "monitor"
    /\ \A k \in 1..Len(calls) : calls[k].op # "destroy"

----------------------------------------------------------------------------
\* The entry that a registration creates

\* the value of a field of the normalized config: the supplied one, or the default
FieldOr(config, field, supplied, default) == IF field \in config.given THEN supplied ELSE default

RegistrationFillsDefaultsStep ==
    \A config \in DefaultsInputs :
        ("a" \notin Registered /\ RegisterPlugin("a", config)) =>
            /\ Len(heap') = Len(heap) + 1
            /\ MapGet(plugins', "a") = Len(heap')
            /\ LET entry == heap'[Len(heap')]
               IN  /\ entry.config.errorHandling.retryAttempts =
                          FieldOr(config, "retryAttempts", config.retryAttempts, 3)
                   /\ entry.config.errorHandling.timeoutMs =
                          FieldOr(config, "timeoutMs", config.timeoutMs, 5000)
                   /\ entry.config.errorHandling.recoveryStrategy =
                          FieldOr(config, "recoveryStrategy", config.recoveryStrategy, "restart")
                   /\ entry.config.dependencies =
                          FieldOr(config, "dependencies", config.dependencies, <<>>)
                   /\ entry.config.options = FieldOr(config, "options", config.options, "{}")
                   /\ entry.config.metadata =
                          FieldOr(config, "metadata", config.metadata, "1.0.0 / No description provided")
                   /\ entry.isInitialized = FALSE
                   /\ entry.metrics = [lastHeartbeat |-> clock, errorCount |-> 0, warningCount |-> 0]
            /\ EdgesOf(dependencies', "a") = FieldOr(config, "dependencies", config.dependencies, <<>>)

\* C31: a registration that is accepted creates an entry whose config has, for
\* every field of PluginConfig and of errorHandling, the supplied value when the
\* caller supplied one and otherwise the default (retryAttempts 3, timeoutMs 5000,
\* recoveryStrategy 'restart', no dependencies, empty options, the default
\* metadata); the entry has isInitialized = false, errorCount = 0, warningCount = 0
\* and lastHeartbeat = the time of the registration
C31_RegistrationFillsDefaults == [][RegistrationFillsDefaultsStep]_vars

\* "a" was registered 20,000 ms after construction with retryAttempts and options
\* alone: the other fields have their defaults
C31_Witness ==
    /\ "a" \in Registered
    /\ LET entry == heap[MapGet(plugins, "a")]
       IN  /\ entry.metrics.lastHeartbeat = 20000
           /\ entry.config.errorHandling =
                  [retryAttempts |-> 1, timeoutMs |-> 5000, recoveryStrategy |-> "restart"]
           /\ entry.config.options = "{debug: true}"
           /\ entry.config.dependencies = <<>>
    /\ dependencies = <<>>

----------------------------------------------------------------------------
\* What a run of initializePlugin that returns has done

\* the initializePlugin run of task i for the k-th plugin of its order has returned
\* without an error
ReturnedFor(i, k) ==
    /\ k <= Len(tasks[i].initOrder)
    /\ k < tasks[i].idx \/ (k <= tasks[i].idx /\ tasks[i].pc = "resolved")

\* C32: when a run of initializePlugin has returned without an error, the run has
\* called plugin.initialize at least once and the entry has isInitialized = true
C32_ReturnMeansInitialized ==
    \A i \in InitializePluginsTasks, k \in 1..MaxEntries :
        ReturnedFor(i, k) =>
            LET ref == MapGet(plugins, tasks[i].initOrder[k])
            IN  /\ heap[ref].isInitialized
                /\ \E e \in 1..Len(calls) :
                      /\ calls[e].op = "initialize" /\ calls[e].phase = "call"
                      /\ calls[e].by = i /\ calls[e].entry = ref

\* initializePlugins has resolved for "a", registered with retryAttempts = 0 alone:
\* plugin.initialize was never called and "a" is not initialized
C32_Witness ==
    \E i \in InitializePluginsTasks :
        /\ tasks[i].pc = "resolved"
        /\ tasks[i].initOrder = <<"a">>
        /\ heap[MapGet(plugins, "a")].config.errorHandling.retryAttempts = 0
        /\ ~heap[MapGet(plugins, "a")].isInitialized
        /\ \A e \in 1..Len(calls) : calls[e].op # "initialize"
        /\ log[Len(log)].msg = "Registered plugin"

----------------------------------------------------------------------------
\* Termination of initializePlugin

\* task i is in a run of initializePlugin: in the race of an attempt or in the wait
\* before the next one
Running(i) == i <= Len(tasks) /\ tasks[i].pc \in {"initialize", "backoff"}

Ended(i) == i <= Len(tasks) /\ Settled(i)

\* the run that task i is in has called plugin.initialize no more than retryAttempts times
WithinBudget(i) == Running(i) => tasks[i].started <= tasks[i].retryAttempts

\* C33: given that the timers fire, every call that is in a run of initializePlugin
\* ends, in success or with 'Failed to initialize plugin', whatever
\* plugin.initialize does, also when it never settles; and no run calls
\* plugin.initialize more than retryAttempts times
C33_InitializePluginTerminates ==
    /\ [](\A i \in 1..MaxTasks : WithinBudget(i))
    /\ \A i \in 1..MaxTasks : Running(i) ~> Ended(i)
    /\ [](\A i \in 1..MaxTasks :
            (Ended(i) /\ tasks[i].pc = "rejected") => tasks[i].error.message = "Failed to initialize plugin")

\* the call was rejected after three attempts none of which settled: the three
\* timeouts and the two waits took 18,000 ms
C33_Witness ==
    \E i \in 1..Len(tasks) :
        /\ tasks[i].pc = "rejected"
        /\ tasks[i].error.message = "Failed to initialize plugin"
        /\ tasks[i].attempts = 3
        /\ clock = 18000
        /\ \A e \in 1..Len(calls) : calls[e].phase = "call"

----------------------------------------------------------------------------
\* The error count after a restart

ErrorCountKeptStep ==
    /\ \A ref \in 1..Len(heap) : heap'[ref].metrics.errorCount >= ErrorCountOfEntry(ref)
    /\ \A i \in 1..Len(tasks) :
          (tasks[i].kind = "restartPlugin" /\ ResolvesInStep(i)) =>
              /\ tasks'[i].pc = "resolved"
              /\ heap'[tasks[i].entry].isInitialized
              /\ heap'[tasks[i].entry].metrics.errorCount = ErrorCountOfEntry(tasks[i].entry)
    /\ TickStep =>
          \A name \in OverThreshold : HandledInStep(name, StrategyOf(name)) = 1

\* C34: no step lowers the errorCount of an entry, and a restart that initializes
\* the plugin again leaves it as it is; so every tick begins the recovery of every
\* registered entry whose errorCount is over 10, also of one that an earlier
\* restart has initialized again and that has not failed since
C34_RecoveryAgainAfterRestart == [][ErrorCountKeptStep]_vars

\* the restart begun by one tick has initialized the plugin again, and the next
\* tick has begun another restart of it, with the errorCount still at 11
C34_Witness ==
    \E i, j \in 1..Len(tasks) :
        /\ i < j
        /\ tasks[i].origin = "monitor" /\ tasks[i].kind = "restartPlugin" /\ tasks[i].pc = "resolved"
        /\ \E e \in 1..Len(calls) :
              calls[e] = CallEvent("initialize", tasks[i].entry, tasks[i].name, i, "resolved")
        /\ tasks[j].origin = "monitor" /\ tasks[j].kind = "restartPlugin" /\ tasks[j].pc = "destroy"
        /\ tasks[j].entry = tasks[i].entry
        /\ heap[tasks[j].entry].isInitialized
        /\ ErrorCountOfEntry(tasks[j].entry) = 11

----------------------------------------------------------------------------
\* An entry that was removed

\* the entries that the plugin map leads to
RegisteredEntries == {plugins[k].value : k \in 1..Len(plugins)}

\* the entries that a termination has removed
RemovedEntries == (1..Len(heap)) \ RegisteredEntries

RemovedStaysStoppedStep ==
    \A ref \in RemovedEntries :
        /\ \A e \in (Len(calls) + 1)..Len(calls') :
              ~(calls'[e].op = "initialize" /\ calls'[e].phase = "call" /\ calls'[e].entry = ref)
        /\ heap'[ref].isInitialized => heap[ref].isInitialized

\* C35: once a termination has removed an entry, plugin.initialize is not called
\* for that entry any more and the entry does not become initialized, whatever
\* initializePlugins call or restart is in flight or begins later
C35_RemovedStaysStopped == [][RemovedStaysStoppedStep]_vars

\* the entry of "a" was removed by the monitor's termination while initializePlugins
\* was waiting to retry; the retry was made all the same and has marked the
\* removed entry as initialized
C35_Witness ==
    \E i \in InitializePluginsTasks, j \in 1..Len(tasks), e \in 1..Len(calls) :
        /\ tasks[j].kind = "terminatePlugin" /\ tasks[j].pc = "resolved"
        /\ tasks[j].entry \in RemovedEntries
        /\ tasks[i].entry = tasks[j].entry
        /\ tasks[i].pc = "resolved"
        /\ calls[e] = CallEvent("destroy", tasks[j].entry, tasks[j].name, j, "resolved")
        /\ \E f \in (e + 1)..Len(calls) :
              calls[f] = CallEvent("initialize", tasks[j].entry, tasks[j].name, i, "call")
        /\ heap[tasks[j].entry].isInitialized
        /\ Registered = {}

----------------------------------------------------------------------------
\* Recoveries of one plugin

\* a recovery that the monitor started for the entry has not ended
RecoveryPending(ref) ==
    \E i \in 1..Len(tasks) :
        tasks[i].origin = "monitor" /\ IsRecovery(i) /\ tasks[i].entry = ref /\ ~Settled(i)

OneRecoveryAtATimeStep ==
    TickStep =>
        \A k \in (Len(tasks) + 1)..Len(tasks') : ~RecoveryPending(tasks'[k].entry)

\* C36: a tick starts no restart and no termination of a plugin while a restart or
\* a termination that an earlier tick started for it has not ended
C36_OneRecoveryAtATime == [][OneRecoveryAtATimeStep]_vars

\* two restarts of the same entry, started by two ticks, both wait for the same
\* plugin's destroy
C36_Witness ==
    \E i, j \in 1..Len(tasks) :
        /\ i < j
        /\ tasks[i].origin = "monitor" /\ tasks[i].kind = "restartPlugin" /\ tasks[i].pc = "destroy"
        /\ tasks[j].origin = "monitor" /\ tasks[j].kind = "restartPlugin" /\ tasks[j].pc = "destroy"
        /\ tasks[i].entry = tasks[j].entry
        /\ clock = 70000

----------------------------------------------------------------------------
\* The keys of the dependency map

DependencyKeysStep ==
    /\ Range(MapKeys(dependencies')) \subseteq Registered'
    /\ \A name \in PluginNames :
          EdgesOf(dependencies', name) # EdgesOf(dependencies, name) =>
              \/ name \notin Registered /\ name \in Registered'
              \/ name \in Registered /\ name \notin Registered'

\* C37: the ids that have a dependency set are registered ids, in every state; the
\* dependency set of an id changes only in the step that registers the id and in
\* the step that removes its entry
C37_DependencyKeysRegistered == [][DependencyKeysStep]_vars

\* "a", which was registered with a dependency, was terminated with success and has
\* no dependency set any more; "b" is registered and has one
C37_Witness ==
    \E i \in 1..Len(tasks) :
        /\ tasks[i].kind = "terminatePlugin" /\ tasks[i].name = "a" /\ tasks[i].pc = "resolved"
        /\ tasks[i].entry # 0
        /\ heap[tasks[i].entry].config.dependencies # <<>>
        /\ Registered = {"b"}
        /\ MapKeys(dependencies) = <<"b">>

----------------------------------------------------------------------------
\* initializePlugins over a graph that does not resolve

ResolutionFailsStep ==
    (InitializePluginsCalled /\ ~Resolvable) =>
        /\ WalkNow.thrown.error \in {"Circular dependency detected", "Missing dependency"}
        /\ tasks'[Len(tasks')].pc = "rejected"
        /\ tasks'[Len(tasks')].error.message = WalkNow.thrown.error
        /\ tasks'[Len(tasks')].error.code = "CONFIGURATION_ERROR"
        /\ calls' = calls
        /\ heap' = heap
        /\ plugins' = plugins
        /\ dependencies' = dependencies

\* C38: when the dependency graph has a cycle or a dependency that is not
\* registered, initializePlugins rejects with that error at the call, calls no
\* plugin and leaves every entry, with its isInitialized and errorCount, as it was
C38_ResolutionFailureChangesNothing == [][ResolutionFailsStep]_vars

\* after a call that initialized "a", "b" was registered with a dependency on
\* itself, and the next call was rejected: "a" is initialized as before, "b" is
\* not, and the second call made no plugin call
C38_Witness ==
    \E i, j \in InitializePluginsTasks :
        /\ i < j
        /\ tasks[i].pc = "resolved" /\ tasks[i].initOrder = <<"a">>
        /\ tasks[j].pc = "rejected"
        /\ tasks[j].error.message = "Circular dependency detected"
        /\ Registered = {"a", "b"}
        /\ heap[MapGet(plugins, "a")].isInitialized
        /\ ~heap[MapGet(plugins, "b")].isInitialized
        /\ \A e \in 1..Len(calls) : calls[e].by # j

----------------------------------------------------------------------------
\* A plugin that depends on itself

SelfDependent == {name \in Registered : name \in DepsOf(name)}

\* C39 as stated: with a registered plugin that names itself as a dependency,
\* resolveInitializationOrder fails with CircularDependency
C39_AsStated ==
    SelfDependent # {} => WalkNow.thrown.error = "Circular dependency detected"

\* with a plugin that depends on itself the walk fails, and it fails with
\* CircularDependency when every declared dependency is registered
SelfDependencyFails ==
    SelfDependent # {} =>
        /\ WalkNow.thrown.error \in {"Circular dependency detected", "Missing dependency"}
        /\ AllDepsRegistered => WalkNow.thrown.error = "Circular dependency detected"
        /\ WalkNow.thrown.error = "Missing dependency" => WalkNow.thrown.dep \notin Registered

\* the registrations of a plugin with itself among its dependencies
SelfDependentInputs ==
    {in \in [name : PluginNames, deps : ArraysUpTo(PluginNames, MaxDeps)] : SeqHas(in.deps, in.name)}

SelfDependencyStep ==
    /\ \A in \in SelfDependentInputs :
          LET name == in.name
          IN  (name \notin Registered
                 /\ RegisterPlugin(name, Config({"dependencies"}, in.deps, DefaultRetryAttempts, "restart"))) =>
                 /\ callResult'.error = "none"
                 /\ name \in SelfDependent'

\* C39 amended: the registration of a plugin that names itself as a dependency is
\* accepted, and from then on resolveInitializationOrder fails and returns no
\* order: with CircularDependency when every declared dependency is registered,
\* and otherwise with CircularDependency or with MissingDependency for a
\* dependency that is not registered, whichever the walk meets first
C39_SelfDependencyFails == [][SelfDependencyStep]_vars /\ []SelfDependencyFails

\* "a" alone is registered, with itself as its dependency, and initializePlugins
\* was rejected with the path a, a
C39_Witness ==
    \E i \in InitializePluginsTasks :
        /\ Registered = {"a"}
        /\ DepsOf("a") = {"a"}
        /\ tasks[i].pc = "rejected"
        /\ tasks[i].error.message = "Circular dependency detected"
        /\ tasks[i].error.context.cycle = <<"a", "a">>
        /\ calls = <<>>

============================================================================
